---- MODULE Spec2Model ----
(***************************************************************************)
(* A model of Trident (pydent): the relationship resolver, the FieldValue  *)
(* / AllowableFieldType logic, the Plan / Wire graph with its save, the    *)
(* parallel-fetch helper, the transport, Operation and OperationType, the  *)
(* JSON field of the marshaller and the remember token.  Each subsystem    *)
(* has its own specification (SpecRel, SpecFV, SpecPlan, SpecSave,         *)
(* SpecAsync, SpecQuery, SpecHttp, SpecRid, SpecOp, SpecJson, SpecCookie); *)
(* the variables of the other subsystems stay at their initial value.      *)
(***************************************************************************)
EXTENDS Integers, Sequences, FiniteSets, TLC

VARIABLES
    \* ---- relationship resolver: one record instance and the server ----
    rec,        \* the record: [model, parent_class, session]
    cache,      \* relationship attribute -> its value on the instance (None = unset)
    srv,        \* relationship attribute -> what the server answers now
    lookups,    \* relationship attribute -> remote lookups issued so far
    calls,      \* attribute reads made on the record so far
    firstVal,   \* relationship attribute -> value the first lookup gave (history)
    last,       \* the last call on the record and its outcome
    \* ---- one FieldValue and the FieldType it belongs to ----
    ftype,      \* the FieldType: [id, name, role, afts]
    fv,         \* the FieldValue: <<>> before it is constructed, <<f>> after
    fvcall,     \* the last call on the FieldValue: [op, args, err, warn]
    \* ---- a Plan (pydent.models), its operations' FieldValues and wires ----
    plan,       \* the Plan: [id, operations, wires]
    fvw,        \* FieldValue -> its wires_as_source / wires_as_dest attributes
    srvw,       \* the wires the server holds
    psession,   \* the session the Plan's records are bound to
    pcall,      \* the last call on the Plan or a FieldValue of it
    \* ---- a PlanRecord (py/aq) and its save ----
    prec,       \* the PlanRecord: [name, id, status, operations, wires]
    nrid,       \* the rid the next record created gets
    scall,      \* the last call on the PlanRecord: [op, err, resp, posts]
    \* ---- one call of a function wrapped by make_async ----
    adata,      \* the data the wrapper is called with
    chunk_size, \* the chunk size of the decorator
    futures,    \* chunk -> "queued" | "running" | "done"
    completed,  \* the chunks in the order their futures completed
    results,    \* exec_async_fxn's results list
    apc,        \* the wrapper: "idle" | "collecting" | "returned"
    returned,   \* the list the wrapper returned
    \* ---- a record whose relationships are queried with parameters ----
    qrec,       \* the record: [model, id, parent_id, parent_class, ..., session]
    qcache,     \* relationship attribute -> its value on the instance
    qtable,     \* the DataAssociation rows the server holds
    qcall,      \* the last read: [attr, params, val, rows, err, n]
    \* ---- the transport (AqHTTP) ----
    http,       \* "none" before construction, "failed", or "ready"
    requests_session, \* AqHTTP._requests_session: "unset" | "set"
    request_history,  \* AqHTTP.request_history: request key -> response
    answered,   \* the keys of the HTTP requests answered since the last clear
    made,       \* the keys of the HTTP requests issued since the last clear
    nrequests,  \* HTTP requests issued so far
    hcall,      \* the last call on the transport and its outcome
    \* ---- the record instances created in the process ----
    instances,  \* the instances, in order of creation: [model, session, rid]
    rid_counter, \* the next record id
    rcall,      \* the last call: [op, i, session]
    \* ---- an Operation of an OperationType ----
    otype,      \* the field_types of the OperationType
    oper,       \* the Operation: <<>> before it exists, <<o>> after
    ocall,      \* the last call on the Operation: [op, name, role, err, ret]
    \* ---- one JSON attribute of a record, loaded, dumped and loaded again ----
    jdoc,       \* the attribute in the document: [attr, value, nulls]
    jrec,       \* the attribute of the record loaded: <<>> or <<value>>
    jdumped,    \* the attribute in the dump of the record: <<>> or <<value>>
    jrec2,      \* the attribute of the record loaded from the dump
    jcall,      \* the last call: [op, err]
    \* ---- a set-cookie header and the cookie header made from it ----
    set_cookie, \* the cookie fields of the header: a list of [name, value]
    cookie,     \* what fix_remember_token returned, <<>> before the call
    ccall       \* the last call: [op, err]

relVars == <<rec, cache, srv, lookups, calls, firstVal, last>>
fvVars == <<ftype, fv, fvcall>>
planVars == <<plan, fvw, srvw, psession, pcall>>
saveVars == <<prec, nrid, scall>>
asyncVars == <<adata, chunk_size, futures, completed, results, apc, returned>>
queryVars == <<qrec, qcache, qtable, qcall>>
httpVars == <<http, requests_session, request_history, answered, made, nrequests, hcall>>
ridVars == <<instances, rid_counter, rcall>>
opVars == <<otype, oper, ocall>>
jsonVars == <<jdoc, jrec, jdumped, jrec2, jcall>>
cookieVars == <<set_cookie, cookie, ccall>>

vars == <<rec, cache, srv, lookups, calls, firstVal, last, ftype, fv, fvcall,
          plan, fvw, srvw, psession, pcall, prec, nrid, scall,
          adata, chunk_size, futures, completed, results, apc, returned,
          qrec, qcache, qtable, qcall,
          http, requests_session, request_history, answered, made, nrequests, hcall,
          instances, rid_counter, rcall, otype, oper, ocall,
          jdoc, jrec, jdumped, jrec2, jcall, set_cookie, cookie, ccall>>

\* the variables a subsystem leaves alone
notRel == <<fvVars, planVars, saveVars, asyncVars, queryVars, httpVars, ridVars, opVars,
    jsonVars, cookieVars>>
notFV == <<relVars, planVars, saveVars, asyncVars, queryVars, httpVars, ridVars, opVars,
    jsonVars, cookieVars>>
notPlan == <<relVars, fvVars, saveVars, asyncVars, queryVars, httpVars, ridVars, opVars,
    jsonVars, cookieVars>>
notSave == <<relVars, fvVars, planVars, asyncVars, queryVars, httpVars, ridVars, opVars,
    jsonVars, cookieVars>>
notAsync == <<relVars, fvVars, planVars, saveVars, queryVars, httpVars, ridVars, opVars,
    jsonVars, cookieVars>>
notQuery == <<relVars, fvVars, planVars, saveVars, asyncVars, httpVars, ridVars, opVars,
    jsonVars, cookieVars>>
notHttp == <<relVars, fvVars, planVars, saveVars, asyncVars, queryVars, ridVars, opVars,
    jsonVars, cookieVars>>
notRid == <<relVars, fvVars, planVars, saveVars, asyncVars, queryVars, httpVars, opVars,
    jsonVars, cookieVars>>
notOp == <<relVars, fvVars, planVars, saveVars, asyncVars, queryVars, httpVars, ridVars,
    jsonVars, cookieVars>>
notJson == <<relVars, fvVars, planVars, saveVars, asyncVars, queryVars, httpVars, ridVars,
    opVars, cookieVars>>
notCookie == <<relVars, fvVars, planVars, saveVars, asyncVars, queryVars, httpVars, ridVars,
    opVars, jsonVars>>

(***************************************************************************)
(* Bounds of the model                                                     *)
(***************************************************************************)
\* reads of relationship attributes made on the record
MaxCalls == 3
\* AllowableFieldTypes of the FieldType
MaxAfts == 2
\* wires made on a plan
MaxWires == 2
\* items of the data a wrapped function is called with
MaxData == 3
\* chunk sizes of make_async
MaxChunk == 2
\* HTTP requests issued by a transport
MaxRequests == 3
\* record instances created
MaxInstances == 4
\* FieldValues of the operation
MaxFvs == 3
\* cookie fields of a set-cookie header
MaxFields == 3

(***************************************************************************)
(* Values.  Python's None, a single record and a list of records are       *)
(* records of one shape, so that any two of them compare.                  *)
(***************************************************************************)
None == [k |-> "none", ids |-> <<>>]
One(i) == [k |-> "one", ids |-> <<i>>]
Many(s) == [k |-> "many", ids |-> s]

Range(s) == {s[i] : i \in DOMAIN s}

\* the element of a set of one element
Only(S) == CHOOSE x \in S : TRUE

(***************************************************************************)
(* Relationship declarations (pydent/models.py, pydent/relationships.py)   *)
(***************************************************************************)
NoSession == "None"
Models == {"FieldType", "Code", "Operation"}

\* the `fields` dict of the three model classes: attribute -> descriptor
FieldTypeFields ==
    [allowable_field_types |-> [rel |-> "HasMany", model |-> "AllowableFieldType",
                                callback |-> "where_callback"],
     operation_type        |-> [rel |-> "HasOne", model |-> "OperationType",
                                callback |-> "find_field_parent"],
     sample_type           |-> [rel |-> "HasOne", model |-> "SampleType",
                                callback |-> "find_field_parent"]]

CodeFields ==
    [user           |-> [rel |-> "HasOne", model |-> "User",
                         callback |-> "find_callback"],
     operation_type |-> [rel |-> "One", model |-> "OperationType",
                         callback |-> "get_parent"],
     library        |-> [rel |-> "One", model |-> "Library",
                         callback |-> "get_parent"]]

OperationFields ==
    [field_values      |-> [rel |-> "HasManyGeneric", model |-> "FieldValue",
                            callback |-> "where_callback"],
     operation_type    |-> [rel |-> "HasOne", model |-> "OperationType",
                            callback |-> "find_callback"],
     plan_associations |-> [rel |-> "HasMany", model |-> "PlanAssociation",
                            callback |-> "where_callback"],
     plans             |-> [rel |-> "HasManyThrough", model |-> "Plan",
                            callback |-> "where_callback"]]

Fields(model) ==
    CASE model = "FieldType" -> FieldTypeFields
      [] model = "Code"      -> CodeFields
      [] OTHER               -> OperationFields

Attrs(model) == DOMAIN Fields(model)

IsMany(d) == d.rel \in {"HasMany", "HasManyGeneric", "HasManyThrough"}

\* parent_class values a record of the model is loaded with
ParentClasses(model) ==
    CASE model = "FieldType" -> {"OperationType", "SampleType"}
      [] model = "Code"      -> {"OperationType", "Library"}
      [] OTHER               -> {"None"}

(***************************************************************************)
(* The server: what a find / where for the attribute answers               *)
(***************************************************************************)
OneAnswers == {None, One(1), One(2)}
ManyAnswers == {Many(<<>>), Many(<<1>>), Many(<<1, 2>>)}

Answers(d) == IF IsMany(d) THEN ManyAnswers ELSE OneAnswers

\* HasManyThrough (relationships.py:76-88): the ids asked for are the
\* <model>_id of the rows of the association; the server answers with the
\* records of these ids that exist
ThroughAttr == "plan_associations"
TargetIdOf(row) == row + 10
ThroughAnswers == {Many(<<>>), Many(<<11>>), Many(<<11, 12>>)}

SrvAnswers(model, a) ==
    IF Fields(model)[a].rel = "HasManyThrough" THEN ThroughAnswers
    ELSE Answers(Fields(model)[a])

\* result of a callback: the value, the error raised, the lookups issued
Ret(v, e, n) == [val |-> v, err |-> e, n |-> n]

\* ModelBase.find_callback: session.model_interface(model).find(id)
find_callback(r, answer) ==
    IF r.session = NoSession THEN Ret(None, "NoSessionError", 0)
    ELSE Ret(answer, "none", 1)

\* ModelBase.where_callback: session.model_interface(model).where(params)
where_callback(r, answer) ==
    IF r.session = NoSession THEN Ret(None, "NoSessionError", 0)
    ELSE Ret(answer, "none", 1)

\* FieldMixin.find_field_parent (models.py:147-157)
find_field_parent(r, model_name, answer) ==
    IF model_name = r.parent_class
    THEN find_callback(r, answer)
    ELSE Ret(None, "none", 0)

\* Code.get_parent (models.py:203-206): self.session is None without a
\* session, and None has no model_interface
get_parent(r, parent_class, answer) ==
    IF parent_class # r.parent_class
    THEN Ret(None, "none", 0)
    ELSE IF r.session = NoSession
         THEN Ret(None, "AttributeError", 0)
         ELSE Ret(answer, "none", 1)

\* the callback of a descriptor applied to the record
Callback(r, d, answer) ==
    CASE d.callback = "find_callback"     -> find_callback(r, answer)
      [] d.callback = "where_callback"    -> where_callback(r, answer)
      [] d.callback = "find_field_parent" -> find_field_parent(r, d.model, answer)
      [] OTHER                            -> get_parent(r, d.model, answer)

\* where(Plan, {"id": ids}) on the server: the existing records among ids
SelectIds(ids, existing) ==
    Many(SelectSeq(ids, LAMBDA x : x \in Range(existing.ids)))

\* the state of the instance that an attribute access reads and writes
Inst(c, l, f) == [cache |-> c, lookups |-> l, first |-> f]

\* one callback run for attribute a, its answer given; the result is cached
Fulfill(st, r, a, answer) ==
    LET res == Callback(r, Fields(r.model)[a], answer)
        lk  == st.lookups[a] + res.n
    IN  [cache   |-> [st.cache EXCEPT ![a] = res.val],
         lookups |-> [st.lookups EXCEPT ![a] = lk],
         first   |-> IF st.lookups[a] = 0 /\ res.n > 0
                     THEN [st.first EXCEPT ![a] = res.val] ELSE st.first,
         val     |-> res.val,
         err     |-> res.err]

Cached(st, a) ==
    [cache |-> st.cache, lookups |-> st.lookups, first |-> st.first,
     val |-> st.cache[a], err |-> "none"]

\* reading a relationship attribute that is not a through-relationship: a
\* value that is not None is returned as it is, None runs the callback
GetSimple(st, r, a, server) ==
    IF st.cache[a] # None THEN Cached(st, a)
    ELSE Fulfill(st, r, a, server[a])

\* reading a relationship attribute.  The parameters of a HasManyThrough
\* are computed from the association attribute, which is read first
GetAttr(st, r, a, server) ==
    IF st.cache[a] # None THEN Cached(st, a)
    ELSE IF Fields(r.model)[a].rel = "HasManyThrough"
         THEN LET t == GetSimple(st, r, ThroughAttr, server)
              IN  IF t.err # "none"
                  THEN [t EXCEPT !.val = None]
                  ELSE Fulfill(Inst(t.cache, t.lookups, t.first), r, a,
                               SelectIds([i \in DOMAIN t.val.ids |->
                                             TargetIdOf(t.val.ids[i])],
                                         server[a]))
         ELSE GetSimple(st, r, a, server)

\* FieldType.get_allowable_field_types (models.py:283-288): the condition
\* under which the attribute is cleared and read again
AlwaysRefetch(afts) == TRUE
NeedsRefetch(afts) == afts = None \/ afts = Many(<<>>)

get_allowable_field_types(st, r, server) ==
    LET a  == "allowable_field_types"
        g1 == GetAttr(st, r, a, server)
    IN  IF g1.err # "none" THEN g1
        ELSE IF NeedsRefetch(g1.val)
             THEN GetAttr(Inst([g1.cache EXCEPT ![a] = None], g1.lookups, g1.first),
                          r, a, server)
             ELSE g1

(***************************************************************************)
(* FieldType, AllowableFieldType and FieldValue (pydent/models.py)         *)
(*                                                                         *)
(* A record is referred to by its id, 0 standing for None.                 *)
(***************************************************************************)
SampleTypeIds == {1, 2}
ObjectTypeIds == {1, 2}

\* the inventory: Sample s is of SampleType s; Item 1 is Sample 1 in a
\* container of ObjectType 1, Item 2 has no sample and ObjectType 2
Samples == {1, 2}
Items == {1, 2}
sample_type_id(sample) == sample
object_type_id(item) == item
sample_of(item) == IF item = 1 THEN 1 ELSE 0

\* AllowableFieldType: [id, sample_type_id, object_type_id]
NoAft == [id |-> 0, sample_type_id |-> 0, object_type_id |-> 0]

AftPairs == SampleTypeIds \X ObjectTypeIds

\* the allowable_field_types lists of a FieldType: the i-th has id 10 * i
AftLists ==
    UNION {{[i \in 1..n |-> [id |-> 10 * i, sample_type_id |-> ps[i][1],
                             object_type_id |-> ps[i][2]]] :
              ps \in [1..n -> AftPairs]} : n \in 0..MaxAfts}

\* the arguments of FieldValue(...), set_value and _set_helper
Args == [value : {0, 1}, sample : {0} \cup Samples,
         item : {0} \cup Items, container : {0} \cup ObjectTypeIds]
NoArgs == [value |-> 0, sample |-> 0, item |-> 0, container |-> 0]

\* FieldValue.__init__ (models.py:356-384) before field_type and values
NewFieldValue(name, role, parent_class, parent_id) ==
    [name |-> name, role |-> role, id |-> 0,
     parent_class |-> parent_class, parent_id |-> parent_id,
     operation |-> 0,
     sample |-> 0, child_sample_id |-> 0,
     item |-> 0, child_item_id |-> 0,
     field_type |-> 0, field_type_id |-> 0,
     allowable_field_type |-> NoAft, allowable_field_type_id |-> 0,
     value |-> 0, object_type |-> 0]

\* FieldValue.set_field_type (models.py:488-493)
set_field_type(f, ft) ==
    [f EXCEPT !.field_type = ft.id, !.field_type_id = ft.id]

\* FieldValue.set_allowable_field_type (models.py:495-497)
set_allowable_field_type(f, aft) ==
    [f EXCEPT !.allowable_field_type = aft, !.allowable_field_type_id = aft.id]

\* FieldValue.set_operation (models.py:483-486)
set_operation(f, op_id) ==
    [f EXCEPT !.parent_class = "Operation", !.parent_id = op_id, !.operation = 1]

\* the outcome of a call on a FieldValue
Out(f, e, w) == [fv |-> f, err |-> e, warn |-> w]

\* FieldValue._set_helper (models.py:440-456)
set_helper(f, a) ==
    IF a.item # 0 /\ a.container # 0 /\ object_type_id(a.item) # a.container
    THEN Out(f, "AquariumModelError", FALSE)
    ELSE LET f1 == IF a.value # 0 THEN [f EXCEPT !.value = a.value] ELSE f
             f2 == IF a.item # 0
                   THEN [f1 EXCEPT !.item = a.item, !.child_item_id = a.item,
                                   !.object_type = object_type_id(a.item)]
                   ELSE f1
             smp == IF a.item # 0 /\ a.sample = 0 THEN sample_of(a.item)
                    ELSE a.sample
             f3 == IF smp # 0
                   THEN [f2 EXCEPT !.sample = smp, !.child_sample_id = smp]
                   ELSE f2
             f4 == IF a.container # 0
                   THEN [f3 EXCEPT !.object_type = a.container]
                   ELSE f3
         IN  Out(f4, "none", FALSE)

\* pydent.utils.filter_list(afts, sample_type_id=...) / (afts, object_type_id=...)
filter_sample_type(afts, st) == SelectSeq(afts, LAMBDA x : x.sample_type_id = st)
filter_object_type(afts, ot) == SelectSeq(afts, LAMBDA x : x.object_type_id = ot)

\* set_value, models.py:463-468: the allowable field types of the field
\* type, filtered by the sample and the object type the FieldValue holds
candidates_by_sample_only(f, ft) ==
    IF f.sample # 0
    THEN filter_sample_type(ft.afts, sample_type_id(f.sample))
    ELSE ft.afts
candidates(f, ft) ==
    LET a1 == IF f.sample # 0
              THEN filter_sample_type(ft.afts, sample_type_id(f.sample))
              ELSE ft.afts
    IN  IF f.object_type # 0 THEN filter_object_type(a1, f.object_type) ELSE a1

\* set_value, models.py:473-475: more than one candidate only warns
several_takes_first(f, afts) == Out(set_allowable_field_type(f, afts[1]), "none", TRUE)
several(f, afts) == Out(f, "none", TRUE)

\* any([sample, container, item])
AnyGiven(a) == a.sample # 0 \/ a.container # 0 \/ a.item # 0

\* FieldValue.set_value (models.py:458-481)
set_value(f, ft, a) ==
    LET h == set_helper(f, a)
    IN  IF h.err # "none" THEN h
        ELSE IF ~AnyGiven(a) THEN h
        ELSE LET afts == candidates(h.fv, ft)
             IN  IF Len(afts) = 0 THEN Out(h.fv, "AquariumModelError", FALSE)
                 ELSE IF Len(afts) > 1 THEN several(h.fv, afts)
                 ELSE IF Len(afts) = 1
                      THEN Out(set_allowable_field_type(h.fv, afts[1]), "none", FALSE)
                      ELSE Out(h.fv, "AquariumModelError", FALSE)

\* FieldValue.__init__ (models.py:342-392): field_type first, then the values
FieldValue(name, role, parent_class, parent_id, ft, a) ==
    LET f0 == set_field_type(NewFieldValue(name, role, parent_class, parent_id), ft)
    IN  IF a # NoArgs THEN set_helper(f0, a) ELSE Out(f0, "none", FALSE)

\* FieldType.initialize_field_value (models.py:300-316), on a FieldValue
\* that is given.  With none given, one is constructed first
initialize_field_value(ft, f) ==
    IF Len(ft.afts) > 0
    THEN [f EXCEPT !.allowable_field_type_id = ft.afts[1].id,
                   !.allowable_field_type = ft.afts[1]]
    ELSE f

\* the keyword arguments FieldType.initialize_field_value declares
\* (models.py:300); a call with any other keyword raises TypeError
initialize_field_value_keywords == {"field_value"}
bind_keyword(kw) ==
    IF kw \in initialize_field_value_keywords THEN "none" ELSE "TypeError"

\* the record given as parent in test_field_type.py:63-64: Sample 6
ParentSample == [model |-> "Sample", id |-> 6]

NoFvCall == [op |-> "none", args |-> NoArgs, err |-> "none", warn |-> FALSE]

IdleFV ==
    /\ ftype = [id |-> 0, name |-> "none", role |-> "none", afts |-> <<>>]
    /\ fv = <<>>
    /\ fvcall = NoFvCall

(***************************************************************************)
(* The state of a record before any call                                  *)
(***************************************************************************)
Zero(model) == [a \in Attrs(model) |-> 0]
Unset(model) == [a \in Attrs(model) |-> None]

NoCall == [op |-> "none", attr |-> "none", val |-> None, err |-> "none",
           session |-> NoSession, looked |-> 0]

(***************************************************************************)
(* Plan, Operation, FieldValue and Wire (pydent/models.py)                 *)
(*                                                                         *)
(* Two operations: operation 1 has the output FieldValue 1, operation 2    *)
(* the input FieldValue 2 and the output FieldValue 3.                     *)
(***************************************************************************)
Ops == {1, 2}
FvIds == {1, 2, 3}
fv_operation(f) == IF f = 1 THEN 1 ELSE 2
fv_role(f) == IF f = 2 THEN "input" ELSE "output"

\* Wire.__init__ (models.py:1124-1128); rid is the record id of the new record
Wire(rid, source, destination) ==
    [rid |-> rid, id |-> 0, source |-> source, destination |-> destination,
     active |-> TRUE]

\* the wire the server may hold: Wire 31 from FieldValue 1 to FieldValue 2
ServerWire == [rid |-> 0, id |-> 31, source |-> 1, destination |-> 2, active |-> TRUE]
ServerWires == {<<>>, <<ServerWire>>}

\* where(Wire, {"from_id": f}) and where(Wire, {"to_id": f}) on the server
wires_from(server, f) == Many(SelectSeq(server, LAMBDA w : w.source = f))
wires_to(server, f) == Many(SelectSeq(server, LAMBDA w : w.destination = f))

\* Plan.__init__ (models.py:830-856)
NewPlan == [id |-> 0, operations |-> <<>>, wires |-> <<>>]

\* ModelBase.append_to_many(name, model): the model is appended to the list
\* the attribute holds
append_to_many(coll, model) == Append(coll, model)

\* Plan.add_operation (models.py:858-867)
Plan_add_operation(p, op) ==
    [p EXCEPT !.operations = append_to_many(p.operations, op)]

\* Plan.wire (models.py:881-883)
Plan_wire(p, src, dest, rid) ==
    [p EXCEPT !.wires = append_to_many(p.wires, Wire(rid, src, dest))]

\* reading the HasMany attribute of a FieldValue that holds c: a value that
\* is not None is returned, None runs where_callback
read_wires(c, session, answer) ==
    IF c # None THEN Ret(c, "none", 0)
    ELSE where_callback([session |-> session], answer)

\* FieldValue.outgoing_wires (models.py:406-409)
outgoing_wires(w, session, server, f) ==
    read_wires(w[f].wires_as_source, session, wires_from(server, f))

\* FieldValue.incoming_wires (models.py:411-414)
incoming_wires(w, session, server, f) ==
    read_wires(w[f].wires_as_dest, session, wires_to(server, f))

\* operation.field_values of the two operations
field_values_of(op) == IF op = 1 THEN <<1>> ELSE <<2, 3>>

\* the FieldValues all_wires visits: those of the operations of the plan,
\* in the order of the two loops (models.py:898-899)
RECURSIVE field_values_of_all(_)
field_values_of_all(ops) ==
    IF ops = <<>> THEN <<>>
    ELSE field_values_of(Head(ops)) \o field_values_of_all(Tail(ops))

\* the outcome of a walk over wires: the wire attributes of the FieldValues
\* after it, the wires collected, the error raised
Walk(w, wires, e) == [w |-> w, wires |-> wires, err |-> e]

\* all_wires, models.py:900-903: the outgoing and then the incoming wires
\* of one FieldValue; an empty list adds nothing
wires_of_field_value(w, session, server, f) ==
    LET out == outgoing_wires(w, session, server, f)
        w1  == [w EXCEPT ![f].wires_as_source = out.val]
        inc == incoming_wires(w1, session, server, f)
        w2  == [w1 EXCEPT ![f].wires_as_dest = inc.val]
    IN  IF out.err # "none" THEN Walk(w, <<>>, out.err)
        ELSE IF inc.err # "none" THEN Walk(w1, <<>>, inc.err)
        ELSE Walk(w2, out.val.ids \o inc.val.ids, "none")

\* all_wires, models.py:898-903: the loops, from the k-th FieldValue on
RECURSIVE all_wires_from(_, _, _, _, _)
all_wires_from(w, session, server, fs, k) ==
    IF k > Len(fs) THEN Walk(w, <<>>, "none")
    ELSE Only({IF r.err # "none" THEN r
               ELSE Only({Walk(rest.w, r.wires \o rest.wires, rest.err) :
                          rest \in {all_wires_from(r.w, session, server, fs, k + 1)}}) :
               r \in {wires_of_field_value(w, session, server, fs[k])}})

\* Plan.all_wires (models.py:893-904)
all_wires(p, w, session, server) ==
    IF Len(p.operations) > 0
    THEN all_wires_from(w, session, server, field_values_of_all(p.operations), 1)
    ELSE Walk(w, <<>>, "none")

NoPlanCall == [op |-> "none", src |-> 0, dest |-> 0, val |-> None,
               err |-> "none", fresh |-> FALSE]

IdlePlan ==
    /\ plan = NewPlan
    /\ fvw = [f \in FvIds |-> [wires_as_source |-> None, wires_as_dest |-> None]]
    /\ srvw = <<>>
    /\ psession = NoSession
    /\ pcall = NoPlanCall

(***************************************************************************)
(* PlanRecord (py/aq/models/plan.py) and the transport it posts through    *)
(***************************************************************************)
\* a locally made Operation record and FieldValue records, by rid
LocalOps == {1, 2}
LocalFvs == {1, 2}
LocalOp(o) == [id |-> 0, rid |-> o]
LocalWire(rid, s, d) == [id |-> 0, rid |-> rid, source |-> s, destination |-> d]
FirstRid == 3

\* PlanRecord.__init__ (plan.py:5-13)
NewPlanRecord ==
    [name |-> "Untitled Plan", id |-> 0, status |-> "planning",
     operations |-> <<>>, wires |-> <<>>]

\* aq.Record.append_association(name, record)
append_association(coll, r) == Append(coll, r)

\* PlanRecord.add_operation (plan.py:15-17)
PlanRecord_add_operation(p, o) ==
    [p EXCEPT !.operations = append_association(p.operations, LocalOp(o))]

\* PlanRecord.wire (plan.py:19-24)
PlanRecord_wire(p, rid, s, d) ==
    [p EXCEPT !.wires = append_association(p.wires, LocalWire(rid, s, d))]

\* the bodies the server answers a POST /plans.json with: {"errors": [...]},
\* or the plan as the server holds it
ErrorResponse ==
    [kind |-> "json", errors |-> TRUE, id |-> 0, operations |-> <<>>, wires |-> <<>>]
PlanJson(i, ops, ws) ==
    [kind |-> "json", errors |-> FALSE, id |-> i, operations |-> ops, wires |-> ws]
Responses ==
    {ErrorResponse} \cup
    {PlanJson(i, ops, ws) :
        i \in {7, 8},
        ops \in {<<>>, <<21>>, <<21, 22>>},
        ws \in {<<>>, <<[id |-> 31, from |-> 41, to |-> 42]>>}}

\* AqHTTP._request_to_json (aqhttp.py:146-160): a body with an "errors" key
\* is raised as a request error
request_to_json_ignores_errors(body) ==
    IF body.kind = "notjson" THEN Ret(body, "RequestError", 1)
    ELSE Ret(body, "none", 1)
request_to_json(body) ==
    IF body.kind = "notjson" THEN Ret(body, "RequestError", 1)
    ELSE IF body.errors THEN Ret(body, "RequestError", 1)
    ELSE Ret(body, "none", 1)

\* aq.http.post(path, data)
http_post(body) == request_to_json(body)

\* aq.Plan.record(r): the records a JSON document deserializes to, each a
\* new record with the next rid
record(r, n) ==
    [id |-> r.id, rid |-> n,
     operations |-> [i \in DOMAIN r.operations |->
                        [id |-> r.operations[i], rid |-> n + i]],
     wires |-> [i \in DOMAIN r.wires |->
                   [id |-> r.wires[i].id, rid |-> n + Len(r.operations) + i,
                    source |-> r.wires[i].from, destination |-> r.wires[i].to]]]

\* save, plan.py:41: `if not self.id`
not_saved_inverted(p) == p.id # 0
not_saved(p) == p.id = 0

\* save, plan.py:47-49: the id and the collections of the new record
adopt_keeps_wires(p, new_plan) ==
    [p EXCEPT !.id = new_plan.id, !.operations = new_plan.operations]
adopt(p, new_plan) ==
    [p EXCEPT !.id = new_plan.id, !.operations = new_plan.operations,
              !.wires = new_plan.wires]

SaveOut(p, e, posts, n) == [plan |-> p, err |-> e, posts |-> posts, nrid |-> n]

\* PlanRecord.save (plan.py:40-53).  The warning of the else branch
\* concatenates a string and the integer id, which raises TypeError
PlanRecord_save(p, resp, n) ==
    IF not_saved(p)
    THEN LET r == http_post(resp)
         IN  IF r.err # "none" THEN SaveOut(p, r.err, r.n, n)
             ELSE IF r.val.errors THEN SaveOut(p, "Exception", r.n, n)
             ELSE SaveOut(adopt(p, record(r.val, n)), "none", r.n,
                          n + 1 + Len(r.val.operations) + Len(r.val.wires))
    ELSE SaveOut(p, "TypeError", 0, n)

NoSaveCall == [op |-> "none", err |-> "none", resp |-> ErrorResponse, posts |-> 0]

IdleSave ==
    /\ prec = NewPlanRecord
    /\ nrid = FirstRid
    /\ scall = NoSaveCall

(***************************************************************************)
(* The parallel-fetch helper (pydent/utils/async_requests.py)              *)
(***************************************************************************)
\* the wrapped function, applied to one item and to a chunk
Fxn(x) == x + 10
fxn(chunk) == [i \in DOMAIN chunk |-> Fxn(chunk[i])]

Min(a, b) == IF a < b THEN a ELSE b

\* chunkify (async_requests.py:7-10)
chunkify(l, n) ==
    [k \in 1..((Len(l) + n - 1) \div n) |->
        SubSeq(l, (k - 1) * n + 1, Min(k * n, Len(l)))]

\* itertools.chain(*results), as a list
RECURSIVE chain(_)
chain(rs) == IF rs = <<>> THEN <<>> ELSE Head(rs) \o chain(Tail(rs))

IdleAsync ==
    /\ adata = <<>>
    /\ chunk_size = 1
    /\ futures = <<>>
    /\ completed = <<>>
    /\ results = <<>>
    /\ apc = "idle"
    /\ returned = <<>>

(***************************************************************************)
(* The parameters of a relationship (pydent/relationships.py) and the      *)
(* server's answer to a find / where with them                             *)
(***************************************************************************)
QIds == {5, 6}
Absent == 0

\* "{}_{}".format(inflection.underscore(model), attr), attr = "id"
iden(model) ==
    CASE model = "SampleType" -> "sample_type_id"
      [] OTHER                -> "operation_type_id"

\* HasOne (relationships.py:68-70): the parameter is getattr(slf, iden).  A
\* `ref` keyword is handed on with the other keyword arguments and takes no
\* part in the parameter
HasOne_params(r, model) == r[iden(model)]

\* HasManyGeneric (relationships.py:122-124)
HasManyGeneric_params(r) == [parent_id |-> r.id]

\* the models with data_associations=HasManyGeneric("DataAssociation")
ParentModels == {"Operation", "Item"}

\* a DataAssociation on the server
Row(pid, pc) ==
    [id |-> 10 * pid + (IF pc = "Operation" THEN 1 ELSE 2),
     parent_id |-> pid, parent_class |-> pc]
Tables == SUBSET {Row(pid, pc) : pid \in QIds, pc \in ParentModels}

\* where(model, params) on the server: the rows that agree with every
\* parameter
where(table, params) ==
    {row \in table : \A k \in DOMAIN params : row[k] = params[k]}

\* find(model, id) on the server
find(model, id) == IF id \in QIds THEN One(id) ELSE None

\* the target model of a parent attribute of FieldType (models.py:241-244)
ParentTarget(attr) ==
    IF attr = "sample_type" THEN "SampleType" ELSE "OperationType"

QOut(c, v, rows, e, n, keys) ==
    [cache |-> c, val |-> v, rows |-> rows, err |-> e, n |-> n, keys |-> keys]

\* record.data_associations: a list already on the instance is returned,
\* otherwise where_callback runs with the parameters of HasManyGeneric
read_data_associations(r, c, table) ==
    IF c.data_associations # <<>>
    THEN QOut(c, None, c.data_associations[1], "none", 0, {})
    ELSE LET params == HasManyGeneric_params(r)
             res    == where_callback(r, where(table, params))
         IN  IF res.err # "none"
             THEN QOut(c, None, {}, res.err, 0, DOMAIN params)
             ELSE QOut([c EXCEPT !.data_associations = <<res.val>>], None,
                       res.val, "none", res.n, DOMAIN params)

\* field_type.sample_type / field_type.operation_type: the parameter of
\* HasOne is evaluated, then find_field_parent runs with it.  Reading an
\* attribute the record does not have raises AttributeError
read_parent(r, c, attr) ==
    LET model == ParentTarget(attr)
    IN  IF c[attr] # None THEN QOut(c, c[attr], {}, "none", 0, {})
        ELSE IF HasOne_params(r, model) = Absent
             THEN QOut(c, None, {}, "AttributeError", 0, {iden(model)})
             ELSE LET res == find_field_parent(r, model,
                                               find(model, HasOne_params(r, model)))
                  IN  QOut([c EXCEPT ![attr] = res.val], res.val, {},
                           res.err, res.n, {iden(model)})

QRecord(model, id, pid, pc, stid, otid, session) ==
    [model |-> model, id |-> id, parent_id |-> pid, parent_class |-> pc,
     sample_type_id |-> stid, operation_type_id |-> otid, session |-> session]

NoQCache == [data_associations |-> <<>>, sample_type |-> None,
             operation_type |-> None]

NoQCall == [attr |-> "none", val |-> None, rows |-> {}, err |-> "none",
            n |-> 0, keys |-> {}]

IdleQuery ==
    /\ qrec = QRecord("FieldType", 4, Absent, "None", Absent, Absent, NoSession)
    /\ qcache = NoQCache
    /\ qtable = {}
    /\ qcall = NoQCall

(***************************************************************************)
(* The transport AqHTTP (pydent/aqhttp.py)                                 *)
(***************************************************************************)
Methods == {"get", "post", "put"}

\* the `json` keyword of a request: not given, None, or a dict, which is
\* modelled by the list of its values: "1", "null" (None) and "{null}" (a
\* dict that holds a None)
NoJson == [given |-> "no", dict |-> <<>>]
PyNone == [given |-> "None", dict |-> <<>>]
Dict(values) == [given |-> "dict", dict |-> values]
JsonData == {PyNone, Dict(<<"1">>), Dict(<<"null">>), Dict(<<"{null}">>)}

\* what the server, or the connection, does with an HTTP request
Response(kind, errors, v) == [kind |-> kind, errors |-> errors, v |-> v]
NoResponse == Response("none", FALSE, 0)
Outcomes ==
    {Response("json", FALSE, 1), Response("json", FALSE, 2),
     Response("json", TRUE, 0), Response("notjson", FALSE, 0),
     Response("timeout", FALSE, 0)}

\* what happens to the POST of sessions.json at login
LoginOutcomes ==
    {"MissingSchema", "ConnectTimeout", "no set-cookie", "set-cookie"}

\* AqHTTP._login (aqhttp.py:61-82): the error raised and _requests_session
login_creates_session_first(outcome) ==
    CASE outcome = "MissingSchema"  -> [err |-> "TridentLoginError", session |-> "unset"]
      [] outcome = "ConnectTimeout" -> [err |-> "TridentTimeoutError", session |-> "unset"]
      [] outcome = "no set-cookie"  -> [err |-> "TridentLoginError", session |-> "set"]
      [] OTHER                      -> [err |-> "none", session |-> "set"]
login(outcome) ==
    CASE outcome = "MissingSchema"  -> [err |-> "TridentLoginError", session |-> "unset"]
      [] outcome = "ConnectTimeout" -> [err |-> "TridentTimeoutError", session |-> "unset"]
      [] outcome = "no set-cookie"  -> [err |-> "TridentLoginError", session |-> "unset"]
      [] OTHER                      -> [err |-> "none", session |-> "set"]

\* AqHTTP._serialize_request (aqhttp.py:99-104)
serialize_request_without_method(url, method, body) ==
    [url |-> url, method |-> "any", body |-> body]
serialize_request(url, method, body) ==
    [url |-> url, method |-> method, body |-> body]

\* AqHTTP._disallow_null_in_json (aqhttp.py:162-166): None has no values();
\* only the values of the top level are looked at, "{null}" is a value that
\* is itself a dict with a null field
disallow_null_in_json(json_data) ==
    IF json_data.given = "None" THEN "AttributeError"
    ELSE IF "null" \in Range(json_data.dict) THEN "TridentJSONDataIncomplete"
    ELSE "none"

\* aqhttp.py:141-142: the HTTP request is issued once; a timeout is raised
\* by the requests session
send_with_retry(outcome) ==
    [sent |-> IF outcome.kind = "timeout" THEN 2 ELSE 1,
     raised |-> outcome.kind = "timeout", result |-> outcome]
send(outcome) ==
    [sent |-> 1, raised |-> outcome.kind = "timeout", result |-> outcome]

\* the request history with one more entry
Store(h, key, result) ==
    [k \in DOMAIN h \cup {key} |-> IF k = key THEN result ELSE h[k]]

HOut(h, result, e, sent) ==
    [history |-> h, result |-> result, err |-> e, sent |-> sent]

\* AqHTTP.request (aqhttp.py:107-144); outcome is what an HTTP request, if
\* one is issued, meets
request(h, method, path, get_from_history_ok, json, outcome) ==
    LET chk == IF json.given # "no" THEN disallow_null_in_json(json) ELSE "none"
    IN  IF chk # "none" THEN HOut(h, NoResponse, chk, 0)
        ELSE LET key    == serialize_request(path, method, json.dict)
                 stored == IF get_from_history_ok /\ key \in DOMAIN h
                           THEN h[key] ELSE NoResponse
             IN  IF stored # NoResponse
                 THEN HOut(h, stored, request_to_json(stored).err, 0)
                 ELSE LET s == send(outcome)
                      IN  IF s.raised
                          THEN HOut(h, NoResponse, "requests.Timeout", s.sent)
                          ELSE HOut(Store(h, key, s.result), s.result,
                                    request_to_json(s.result).err, s.sent)

\* AqHTTP.post (aqhttp.py:168-185), AqHTTP.put (187-204): json=json_data is
\* always passed on, None when json_data is omitted
post(h, path, json_data, get_from_history_ok, outcome) ==
    request(h, "post", path, get_from_history_ok, json_data, outcome)
put(h, path, json_data, get_from_history_ok, outcome) ==
    request(h, "put", path, get_from_history_ok, json_data, outcome)

\* AqHTTP.get (aqhttp.py:206-221): no json is passed on
get(h, path, get_from_history_ok, outcome) ==
    request(h, "get", path, get_from_history_ok, NoJson, outcome)

NoHCall == [op |-> "none", ok |-> FALSE, json |-> NoJson, result |-> NoResponse,
            err |-> "none", sent |-> 0, outcome |-> "none"]

\* the transport before it is constructed
IdleHttp ==
    /\ http = "none"
    /\ requests_session = "unset"
    /\ request_history = <<>>
    /\ answered = {}
    /\ made = {}
    /\ nrequests = 0
    /\ hcall = NoHCall

(***************************************************************************)
(* Record ids (ModelBase)                                                  *)
(***************************************************************************)
Classes == {"MyModel", "MyOtherModel"}

\* the sessions a record is connected to; OperationType.instance
\* (models.py:802-808) passes its own session, which may be None
Sessions == {NoSession, "session", "session2"}

\* ModelBase.__init__: the new instance has no session and takes the next
\* rid of the process
new_record_per_class(insts, counter, model) ==
    [model |-> model, session |-> NoSession,
     rid |-> Cardinality({i \in DOMAIN insts : insts[i].model = model})]
new_record(insts, counter, model) ==
    [model |-> model, session |-> NoSession, rid |-> counter]

\* ModelBase.connect_to_session(session): a record that has a session keeps it
connect_to_session_rebinds(r, session) == [r EXCEPT !.session = session]
connect_to_session(r, session) ==
    IF r.session = NoSession THEN [r EXCEPT !.session = session] ELSE r

NoRidCall == [op |-> "none", i |-> 0, session |-> NoSession]

\* no record instance created yet
IdleRid ==
    /\ instances = <<>>
    /\ rid_counter = 0
    /\ rcall = NoRidCall

(***************************************************************************)
(* Operation and OperationType (pydent/models.py)                          *)
(*                                                                         *)
(* The FieldTypes an OperationType may declare: Fragment is a single       *)
(* input, Primers an input array.  No FieldType is an output.              *)
(***************************************************************************)
OpFieldType(id, name, role, array) ==
    [id |-> id, name |-> name, role |-> role, array |-> array,
     afts |-> <<[id |-> 10 * id, sample_type_id |-> 1, object_type_id |-> 1]>>]

FieldTypePool ==
    <<OpFieldType(1, "Fragment", "input", FALSE),
      OpFieldType(2, "Primers", "input", TRUE)>>

\* the field_types lists of an OperationType: the sublists of the pool
FieldTypeLists ==
    {SelectSeq(FieldTypePool, LAMBDA ft : ft.id \in S) : S \in SUBSET {1, 2}}

\* the names and roles the methods of the operation are called with
Keys == {<<"Fragment", "input">>, <<"Primers", "input">>, <<"Fragment", "output">>}

\* the values an Operation method is called with: none, a sample of the
\* SampleType the FieldTypes allow, a sample of another SampleType
OpArgs == {NoArgs, [NoArgs EXCEPT !.sample = 1], [NoArgs EXCEPT !.sample = 2]}
OpValues == {<<>>} \cup {<<a>> : a \in OpArgs} \cup
            {<<[NoArgs EXCEPT !.sample = 1], [NoArgs EXCEPT !.sample = 2]>>}

\* the field_values attribute of an Operation: None, or a list of FieldValues
NoFvs == [k |-> "none", fvs |-> <<>>]
Fvs(s) == [k |-> "many", fvs |-> s]

\* Operation.__init__ (models.py:608-618): no id, field_values None
NewOperation(session) == [id |-> 0, session |-> session, field_values |-> NoFvs]

\* what a method returns: nothing, one FieldValue or a list of FieldValues
\* (by their position in field_values), or the operation itself
RetNone == [k |-> "none", idx |-> <<>>]
RetOne(i) == [k |-> "one", idx |-> <<i>>]
RetMany(s) == [k |-> "many", idx |-> s]
RetSelf == [k |-> "self", idx |-> <<>>]

\* the outcome of a method of Operation: the operation, the error, the value
OpOut(o, e, r) == [o |-> o, err |-> e, ret |-> r]

\* pydent.utils.filter_list(models, name=..., role=...): the positions of
\* the matching models
filter_list(models, name, role) ==
    SelectSeq([i \in DOMAIN models |-> i],
              LAMBDA i : models[i].name = name /\ models[i].role = role)

\* OperationType.field_type (models.py:810-814): 0 stands for None
field_type(field_types, name, role) ==
    LET fts == filter_list(field_types, name, role)
    IN  IF Len(field_types) > 0 /\ Len(fts) > 0 THEN fts[1] ELSE 0

\* reading operation.field_values: a list is returned as it is, None runs
\* where_callback for the FieldValues of the operation and keeps the answer;
\* the server holds no FieldValue of an operation that was never saved
read_field_values(o) ==
    IF o.field_values.k # "none" THEN OpOut(o, "none", RetNone)
    ELSE LET res == where_callback(o, Many(<<>>))
         IN  IF res.err # "none" THEN OpOut(o, res.err, RetNone)
             ELSE OpOut([o EXCEPT !.field_values = Fvs(<<>>)], "none", RetNone)

\* the FieldType a FieldValue was initialized from
field_type_of(field_types, f) ==
    field_types[CHOOSE i \in DOMAIN field_types : field_types[i].id = f.field_type]

\* Operation.field_value (models.py:659-669)
field_value(o, name, role) ==
    LET r == read_field_values(o)
    IN  IF r.err # "none" THEN r
        ELSE LET fvs == filter_list(r.o.field_values.fvs, name, role)
             IN  IF Len(r.o.field_values.fvs) > 0 /\ Len(fvs) > 0
                 THEN IF Len(fvs) > 1
                      THEN OpOut(r.o, "AquariumModelError", RetNone)
                      ELSE OpOut(r.o, "none", RetOne(fvs[1]))
                 ELSE OpOut(r.o, "none", RetNone)

\* Operation.field_value_array (models.py:647-657)
field_value_array(o, field_types, name, role) ==
    LET r == read_field_values(o)
    IN  IF r.err # "none" THEN r
        ELSE LET all == r.o.field_values.fvs
                 fvs == filter_list(all, name, role)
             IN  IF Len(all) > 0 /\ Len(fvs) > 0
                 THEN IF ~field_type_of(field_types, all[fvs[1]]).array
                      THEN OpOut(r.o, "AquariumModelError", RetNone)
                      ELSE OpOut(r.o, "none", RetMany(fvs))
                 ELSE OpOut(r.o, "none", RetNone)

\* the FieldValue at position i replaced by f
with_field_value(o, i, f) ==
    [o EXCEPT !.field_values = Fvs([o.field_values.fvs EXCEPT ![i] = f])]

\* self.field_values.append(fv)
append_field_value(o, f) ==
    [o EXCEPT !.field_values = Fvs(Append(o.field_values.fvs, f))]

\* field_type.initialize_field_value() with no FieldValue given
new_field_value(ft) ==
    initialize_field_value(ft, FieldValue(ft.name, ft.role, "None", 0, ft, NoArgs).fv)

\* Operation.set_field_value (models.py:700-728)
set_field_value(o, field_types, name, role, a) ==
    LET g  == field_value(o, name, role)
        ft == field_type(field_types, name, role)
    IN  IF g.err # "none" THEN g
        ELSE IF ft = 0 THEN OpOut(g.o, "AquariumModelError", RetNone)
        ELSE IF field_types[ft].array THEN OpOut(g.o, "AquariumModelError", RetNone)
        ELSE LET o1 == IF g.ret.k = "one" THEN g.o
                       ELSE append_field_value(g.o,
                                set_operation(new_field_value(field_types[ft]), g.o.id))
                 i  == IF g.ret.k = "one" THEN g.ret.idx[1]
                       ELSE Len(o1.field_values.fvs)
                 f  == o1.field_values.fvs[i]
                 sv == set_value(f, field_type_of(field_types, f), a)
             IN  OpOut(with_field_value(o1, i, sv.fv), sv.err,
                       IF sv.err = "none" THEN RetSelf ELSE RetNone)

\* Operation.add_to_field_value_array (models.py:690-698): None has no
\* initialize_field_value
add_to_field_value_array(o, field_types, name, role, a) ==
    LET ft == field_type(field_types, name, role)
    IN  IF ft = 0 THEN OpOut(o, "AttributeError", RetNone)
        ELSE LET sv == set_value(new_field_value(field_types[ft]), field_types[ft], a)
                 r  == read_field_values(o)
             IN  IF sv.err # "none" THEN OpOut(o, sv.err, RetNone)
                 ELSE IF r.err # "none" THEN r
                 ELSE OpOut(append_field_value(r.o, sv.fv), "none",
                            RetOne(Len(r.o.field_values.fvs) + 1))

\* set_field_value_array, models.py:686-687: fv.set_value(**val) for the
\* pairs of zip(field_values, values), from the k-th on; a set_value that
\* raises ends the call
RECURSIVE set_values(_, _, _, _, _)
set_values(o, field_types, idx, values, k) ==
    IF k > Len(idx) THEN OpOut(o, "none", RetMany(idx))
    ELSE Only({IF sv.err # "none"
               THEN OpOut(with_field_value(o, idx[k], sv.fv), sv.err, RetNone)
               ELSE set_values(with_field_value(o, idx[k], sv.fv), field_types,
                               idx, values, k + 1) :
               sv \in {set_value(o.field_values.fvs[idx[k]],
                                 field_type_of(field_types,
                                               o.field_values.fvs[idx[k]]),
                                 values[k])}})

\* Operation.set_field_value_array (models.py:673-688): len(None) raises
\* TypeError
set_field_value_array(o, field_types, name, role, values) ==
    LET g  == field_value_array(o, field_types, name, role)
        ft == field_type(field_types, name, role)
    IN  IF g.err # "none" THEN g
        ELSE IF ft = 0 THEN OpOut(g.o, "AquariumModelError", RetNone)
        ELSE IF g.ret.k = "none" THEN OpOut(g.o, "TypeError", RetNone)
        ELSE IF Len(g.ret.idx) # Len(values)
             THEN OpOut(g.o, "AquariumModelError", RetNone)
        ELSE set_values(g.o, field_types, g.ret.idx, values, 1)

\* init_field_values, models.py:641-644: the body of the loop
init_field_value_singles_only(o, field_types, ft) ==
    IF ft.array THEN OpOut(o, "none", RetNone)
    ELSE set_field_value(o, field_types, ft.name, ft.role, NoArgs)
init_field_value(o, field_types, ft) ==
    IF ft.array
    THEN add_to_field_value_array(o, field_types, ft.name, ft.role, NoArgs)
    ELSE set_field_value(o, field_types, ft.name, ft.role, NoArgs)

\* Operation.init_field_values (models.py:635-645), from the k-th FieldType on
RECURSIVE init_field_values(_, _, _)
init_field_values(o, field_types, k) ==
    IF k > Len(field_types) THEN OpOut(o, "none", RetNone)
    ELSE Only({IF r.err # "none" THEN OpOut(r.o, r.err, RetNone)
               ELSE init_field_values(r.o, field_types, k + 1) :
               r \in {init_field_value(o, field_types, field_types[k])}})

\* OperationType.instance (models.py:802-808)
instance(field_types, session) ==
    init_field_values(connect_to_session(NewOperation(NoSession), session),
                      field_types, 1)

NoOpCall == [op |-> "none", name |-> "none", role |-> "none",
             err |-> "none", ret |-> RetNone]

\* no OperationType and no Operation under observation
IdleOp ==
    /\ otype = <<>>
    /\ oper = <<>>
    /\ ocall = NoOpCall

(***************************************************************************)
(* The JSON field of the marshaller (pydent/marshaller/field_extensions.py)*)
(*                                                                         *)
(* A Python value is None, a string, or a number, list or dict; the last   *)
(* are written as the text json.dumps gives for them.                      *)
(***************************************************************************)
PyValue(t, v) == [t |-> t, v |-> v]
NoneValue == PyValue("None", "")
Str(text) == PyValue("str", text)
Obj(text) == PyValue("obj", text)

\* the attributes declared with the JSON field and their allow_none
\* (models.py:227, 536, 827)
JsonAttrs == {"object", "data", "layout"}
allow_none(attr) == attr = "data"

\* what a document holds for the attribute: null or a string
DocValues ==
    {NoneValue, Str(""), Str("x"), Str("null"), Str("\"\""), Str("\"x\""),
     Str("1"), Str("{\"a\": 1}"), Str("{\"a\":1}"), Str("[]")}

\* the outcome of a conversion
Conv(v, e) == [val |-> v, err |-> e]

\* json.loads(text)
json_loads(text) ==
    CASE text = "null"         -> Conv(NoneValue, "none")
      [] text = "\"\""         -> Conv(Str(""), "none")
      [] text = "\"x\""        -> Conv(Str("x"), "none")
      [] text = "1"            -> Conv(Obj("1"), "none")
      [] text = "{\"a\": 1}"   -> Conv(Obj("{\"a\": 1}"), "none")
      [] text = "{\"a\":1}"    -> Conv(Obj("{\"a\": 1}"), "none")
      [] text = "[]"           -> Conv(Obj("[]"), "none")
      [] OTHER                 -> Conv(NoneValue, "JSONDecodeError")

\* json.dumps(value)
json_dumps(value) ==
    CASE value = NoneValue -> "null"
      [] value = Str("")   -> "\"\""
      [] value = Str("x")  -> "\"x\""
      [] OTHER             -> value.v

\* JSON._serialize (field_extensions.py:13-19)
JSON_serialize(value) ==
    IF value = NoneValue THEN Conv(Str(""), "none")
    ELSE Conv(Str(json_dumps(value)), "none")

\* JSON._deserialize (field_extensions.py:21-27); the document holds a string
JSON_deserialize(value) ==
    IF value = NoneValue THEN Conv(Str(""), "none")
    ELSE LET r == json_loads(value.v)
         IN  IF r.err # "none" THEN Conv(NoneValue, "ValidationError") ELSE r

\* how a null of the document reaches the field: handed to _deserialize, or
\* settled by the schema from allow_none before _deserialize is called
NullHandling == {"field", "schema"}

\* loading the attribute from a document
load_attribute(attr, nulls, value) ==
    IF value = NoneValue /\ nulls = "schema"
    THEN IF allow_none(attr) THEN Conv(NoneValue, "none")
         ELSE Conv(NoneValue, "ValidationError")
    ELSE JSON_deserialize(value)

NoJsonCall == [op |-> "none", err |-> "none"]

\* no record loaded from a document
IdleJson ==
    /\ jdoc = [attr |-> "layout", value |-> NoneValue, nulls |-> "field"]
    /\ jrec = <<>>
    /\ jdumped = <<>>
    /\ jrec2 = <<>>
    /\ jcall = NoJsonCall

(***************************************************************************)
(* The remember token (pydent/aqhttp.py, pydent/aq/session.py)             *)
(*                                                                         *)
(* A header is a string, written as the list of its pieces: a cookie name, *)
(* "=", ";", " " and "x" for any other character.                          *)
(***************************************************************************)
CookieNames == {"remember_token", "path"}
CookieValues == {<<"x">>, <<"x", "=", "=">>}

\* the text of one cookie field: name=value
FieldText(field) == <<field.name, "=">> \o field.value

\* the set-cookie header of the fields: the fields joined by "; "
RECURSIVE HeaderText(_)
HeaderText(fields) ==
    IF Len(fields) = 0 THEN <<>>
    ELSE IF Len(fields) = 1 THEN FieldText(fields[1])
    ELSE FieldText(fields[1]) \o <<";", " ">> \o HeaderText(Tail(fields))

\* str.split(sep)
RECURSIVE split(_, _)
split(text, sep) ==
    IF \A i \in DOMAIN text : text[i] # sep THEN <<text>>
    ELSE LET i == CHOOSE i \in DOMAIN text :
                     text[i] = sep /\ \A j \in 1..(i - 1) : text[j] # sep
         IN  <<SubSeq(text, 1, i - 1)>> \o split(SubSeq(text, i + 1, Len(text)), sep)

\* re.match('remember_token', text): the text starts with remember_token
re_match(text) == Len(text) > 0 /\ text[1] = "remember_token"

\* fix_remember_token, aqhttp.py:89-92: the loop over the parts, from the
\* k-th on; a part without "=" has no cparts[1]
RECURSIVE scan_parts(_, _, _)
scan_parts(parts, k, rtok) ==
    IF k > Len(parts) THEN [rtok |-> rtok, err |-> "none"]
    ELSE LET cparts == split(parts[k], "=")
         IN  IF re_match(cparts[1])
             THEN IF Len(cparts) < 2 THEN [rtok |-> rtok, err |-> "IndexError"]
                  ELSE scan_parts(parts, k + 1, cparts[2])
             ELSE scan_parts(parts, k + 1, rtok)

\* AqHTTP.fix_remember_token (aqhttp.py:84-93) and
\* AqHTTP.__fix_remember_token (aq/session.py:43-51)
fix_remember_token(header) ==
    LET r == scan_parts(split(header, ";"), 1, <<>>)
    IN  [val |-> <<"remember_token", "=">> \o r.rtok \o <<";", " ">> \o header,
         err |-> r.err]

NoCookieCall == [op |-> "none", err |-> "none"]

\* no header under observation
IdleCookie ==
    /\ set_cookie = <<>>
    /\ cookie = <<>>
    /\ ccall = NoCookieCall

\* the resolver's record while another subsystem runs
IdleRel ==
    /\ rec = [model |-> "FieldType", parent_class |-> "OperationType",
              session |-> NoSession]
    /\ cache = Unset("FieldType")
    /\ srv = Unset("FieldType")
    /\ lookups = Zero("FieldType")
    /\ calls = 0
    /\ firstVal = Unset("FieldType")
    /\ last = NoCall

(***************************************************************************)
(* SpecRel: a record, its relationship attributes, and the server          *)
(***************************************************************************)
InitRel ==
    /\ \E m \in Models : \E pc \in ParentClasses(m) :
          /\ rec = [model |-> m, parent_class |-> pc, session |-> NoSession]
          /\ cache = Unset(m)
          /\ lookups = Zero(m)
          /\ calls = 0
          /\ firstVal = Unset(m)
          /\ srv \in [Attrs(m) -> OneAnswers \cup ManyAnswers \cup ThroughAnswers]
          /\ \A a \in Attrs(m) : srv[a] \in SrvAnswers(m, a)
    /\ last = NoCall
    /\ IdleFV
    /\ IdlePlan
    /\ IdleSave
    /\ IdleAsync
    /\ IdleQuery
    /\ IdleHttp
    /\ IdleRid
    /\ IdleOp
    /\ IdleJson
    /\ IdleCookie

\* record.connect_to_session(session), on a record that has none
ConnectToSession ==
    /\ rec.session = NoSession
    /\ rec' = connect_to_session(rec, "session")
    /\ last' = [NoCall EXCEPT !.op = "connect_to_session", !.session = "session"]
    /\ UNCHANGED <<cache, srv, lookups, calls, firstVal>>
    /\ UNCHANGED notRel

Apply(op, a, g) ==
    /\ cache' = g.cache
    /\ lookups' = g.lookups
    /\ firstVal' = g.first
    /\ calls' = calls + 1
    /\ last' = [op |-> op, attr |-> a, val |-> g.val, err |-> g.err,
                session |-> rec.session, looked |-> g.lookups[a] - lookups[a]]
    /\ UNCHANGED <<rec, srv>>
    /\ UNCHANGED notRel

\* record.<attr>
Access(a) ==
    /\ calls < MaxCalls
    /\ Apply("getattr", a, GetAttr(Inst(cache, lookups, firstVal), rec, a, srv))

\* field_type.get_allowable_field_types()
GetAllowableFieldTypes ==
    /\ rec.model = "FieldType"
    /\ calls < MaxCalls
    /\ Apply("get_allowable_field_types", "allowable_field_types",
             get_allowable_field_types(Inst(cache, lookups, firstVal), rec, srv))

\* the server's data changes behind the client's back
ServerChange(a) ==
    /\ \E v \in SrvAnswers(rec.model, a) :
          /\ v # srv[a]
          /\ srv' = [srv EXCEPT ![a] = v]
    /\ UNCHANGED <<rec, cache, lookups, calls, firstVal, last>>
    /\ UNCHANGED notRel

NextRel ==
    \/ ConnectToSession
    \/ \E a \in Attrs(rec.model) : Access(a)
    \/ GetAllowableFieldTypes
    \/ \E a \in Attrs(rec.model) : ServerChange(a)

SpecRel == InitRel /\ [][NextRel]_vars

(***************************************************************************)
(* SpecFV: a FieldType and one FieldValue of it                            *)
(***************************************************************************)
InitFV ==
    /\ \E afts \in AftLists :
          ftype = [id |-> 5, name |-> "Plasmid", role |-> "input", afts |-> afts]
    /\ fv = <<>>
    /\ fvcall = NoFvCall
    /\ IdleRel
    /\ IdlePlan
    /\ IdleSave
    /\ IdleAsync
    /\ IdleQuery
    /\ IdleHttp
    /\ IdleRid
    /\ IdleOp
    /\ IdleJson
    /\ IdleCookie

FvDone(op, a, out) ==
    /\ fv' = <<out.fv>>
    /\ fvcall' = [op |-> op, args |-> a, err |-> out.err, warn |-> out.warn]
    /\ UNCHANGED ftype
    /\ UNCHANGED notFV

\* fv = FieldValue(name=..., role=..., field_type=ft, sample=..., ...); a
\* constructor that raises leaves no FieldValue
Construct ==
    /\ fv = <<>>
    /\ \E a \in Args :
          LET out == FieldValue(ftype.name, ftype.role, "None", 0, ftype, a)
          IN  IF out.err = "none"
              THEN FvDone("FieldValue", a, out)
              ELSE /\ fvcall' = [op |-> "FieldValue", args |-> a,
                                 err |-> out.err, warn |-> FALSE]
                   /\ UNCHANGED <<ftype, fv>>
                   /\ UNCHANGED notFV

\* fv = ft.initialize_field_value()
InitializeNew ==
    /\ fv = <<>>
    /\ FvDone("initialize_field_value", NoArgs,
              Out(initialize_field_value(ftype,
                     FieldValue(ftype.name, ftype.role, "None", 0, ftype, NoArgs).fv),
                  "none", FALSE))

\* fv = ft.initialize_field_value(parent=sample): the arguments are bound
\* before the body runs; a call that raises yields no FieldValue
InitializeParent ==
    /\ fv = <<>>
    /\ bind_keyword("parent") # "none"
    /\ fvcall' = [op |-> "initialize_field_value(parent)", args |-> NoArgs,
                  err |-> bind_keyword("parent"), warn |-> FALSE]
    /\ UNCHANGED <<ftype, fv>>
    /\ UNCHANGED notFV

\* ft.initialize_field_value(fv)
InitializeGiven ==
    /\ fv # <<>>
    /\ FvDone("initialize_field_value", NoArgs,
              Out(initialize_field_value(ftype, fv[1]), "none", FALSE))

\* fv.set_value(value=..., sample=..., container=..., item=...)
SetValue ==
    /\ fv # <<>>
    /\ \E a \in Args : FvDone("set_value", a, set_value(fv[1], ftype, a))

NextFV ==
    \/ Construct
    \/ InitializeNew
    \/ InitializeParent
    \/ InitializeGiven
    \/ SetValue

SpecFV == InitFV /\ [][NextFV]_vars

(***************************************************************************)
(* SpecPlan: a Plan is built from two operations and wired                 *)
(***************************************************************************)
InitPlan ==
    /\ plan = NewPlan
    /\ fvw = [f \in FvIds |-> [wires_as_source |-> None, wires_as_dest |-> None]]
    /\ srvw \in ServerWires
    /\ psession \in {NoSession, "session"}
    /\ pcall = NoPlanCall
    /\ IdleRel
    /\ IdleFV
    /\ IdleSave
    /\ IdleAsync
    /\ IdleQuery
    /\ IdleHttp
    /\ IdleRid
    /\ IdleOp
    /\ IdleJson
    /\ IdleCookie

\* plan.add_operation(op), each operation once
AddOperation(op) ==
    /\ op \notin Range(plan.operations)
    /\ plan' = Plan_add_operation(plan, op)
    /\ pcall' = [NoPlanCall EXCEPT !.op = "add_operation"]
    /\ UNCHANGED <<fvw, srvw, psession>>
    /\ UNCHANGED notPlan

\* plan.wire(src, dest): src an output, dest an input
PlanWire(src, dest) ==
    /\ Len(plan.wires) < MaxWires
    /\ fv_role(src) = "output" /\ fv_role(dest) = "input"
    /\ plan' = Plan_wire(plan, src, dest, Len(plan.wires) + 1)
    /\ pcall' = [NoPlanCall EXCEPT
                    !.op = "wire", !.src = src, !.dest = dest,
                    !.fresh = ~\E i \in DOMAIN plan.wires :
                                  /\ plan.wires[i].source = src
                                  /\ plan.wires[i].destination = dest]
    /\ UNCHANGED <<fvw, srvw, psession>>
    /\ UNCHANGED notPlan

\* fv.outgoing_wires
OutgoingWires(f) ==
    LET r == outgoing_wires(fvw, psession, srvw, f)
    IN  /\ fvw' = [fvw EXCEPT ![f].wires_as_source = r.val]
        /\ pcall' = [NoPlanCall EXCEPT !.op = "outgoing_wires", !.src = f,
                                       !.val = r.val, !.err = r.err]
        /\ UNCHANGED <<plan, srvw, psession>>
        /\ UNCHANGED notPlan

\* fv.incoming_wires
IncomingWires(f) ==
    LET r == incoming_wires(fvw, psession, srvw, f)
    IN  /\ fvw' = [fvw EXCEPT ![f].wires_as_dest = r.val]
        /\ pcall' = [NoPlanCall EXCEPT !.op = "incoming_wires", !.dest = f,
                                       !.val = r.val, !.err = r.err]
        /\ UNCHANGED <<plan, srvw, psession>>
        /\ UNCHANGED notPlan

\* plan.all_wires
AllWires ==
    LET r == all_wires(plan, fvw, psession, srvw)
    IN  /\ fvw' = r.w
        /\ pcall' = [NoPlanCall EXCEPT !.op = "all_wires", !.val = Many(r.wires),
                                       !.err = r.err]
        /\ UNCHANGED <<plan, srvw, psession>>
        /\ UNCHANGED notPlan

NextPlan ==
    \/ AllWires
    \/ \E op \in Ops : AddOperation(op)
    \/ \E src, dest \in FvIds : PlanWire(src, dest)
    \/ \E f \in FvIds : OutgoingWires(f)
    \/ \E f \in FvIds : IncomingWires(f)

SpecPlan == InitPlan /\ [][NextPlan]_vars

(***************************************************************************)
(* SpecSave: a PlanRecord is built and saved                               *)
(***************************************************************************)
InitSave ==
    /\ prec = NewPlanRecord
    /\ nrid = FirstRid
    /\ scall = NoSaveCall
    /\ IdleRel
    /\ IdleFV
    /\ IdlePlan
    /\ IdleAsync
    /\ IdleQuery
    /\ IdleHttp
    /\ IdleRid
    /\ IdleOp
    /\ IdleJson
    /\ IdleCookie

\* plan.add_operation(op), each local operation once
AddOperationRecord(o) ==
    /\ LocalOp(o) \notin Range(prec.operations)
    /\ prec' = PlanRecord_add_operation(prec, o)
    /\ scall' = [NoSaveCall EXCEPT !.op = "add_operation"]
    /\ UNCHANGED nrid
    /\ UNCHANGED notSave

\* plan.wire(source, destination)
WireRecord(s, d) ==
    /\ Len(prec.wires) < MaxWires
    /\ s # d
    /\ prec' = PlanRecord_wire(prec, nrid, s, d)
    /\ nrid' = nrid + 1
    /\ scall' = [NoSaveCall EXCEPT !.op = "wire"]
    /\ UNCHANGED notSave

\* plan.save(), the server answering the POST, if one is made, with resp
Save(resp) ==
    LET out == PlanRecord_save(prec, resp, nrid)
    IN  /\ prec' = out.plan
        /\ nrid' = out.nrid
        /\ scall' = [op |-> "save", err |-> out.err, resp |-> resp,
                     posts |-> out.posts]
        /\ UNCHANGED notSave

NextSave ==
    \/ \E o \in LocalOps : AddOperationRecord(o)
    \/ \E s, d \in LocalFvs : WireRecord(s, d)
    \/ \E resp \in Responses : Save(resp)

SpecSave == InitSave /\ [][NextSave]_vars

(***************************************************************************)
(* SpecAsync: one call of a function wrapped by make_async(chunk_size)     *)
(***************************************************************************)
InitAsync ==
    /\ \E n \in 0..MaxData : adata = [i \in 1..n |-> i]
    /\ chunk_size \in 1..MaxChunk
    /\ futures = <<>>
    /\ completed = <<>>
    /\ results = <<>>
    /\ apc = "idle"
    /\ returned = <<>>
    /\ IdleRel
    /\ IdleFV
    /\ IdlePlan
    /\ IdleSave
    /\ IdleQuery
    /\ IdleHttp
    /\ IdleRid
    /\ IdleOp
    /\ IdleJson
    /\ IdleCookie

\* wrapper(data): the data is cut into chunks and exec_async_fxn hands one
\* future per chunk to the executor (async_requests.py:17-20, 57-60)
AsyncCall ==
    /\ apc = "idle"
    /\ futures' = [k \in DOMAIN chunkify(adata, chunk_size) |-> "queued"]
    /\ apc' = "collecting"
    /\ UNCHANGED <<adata, chunk_size, completed, results, returned>>
    /\ UNCHANGED notAsync

\* a thread of the executor takes the work of chunk k
WorkerStart(k) ==
    /\ futures[k] = "queued"
    /\ futures' = [futures EXCEPT ![k] = "running"]
    /\ UNCHANGED <<adata, chunk_size, completed, results, apc, returned>>
    /\ UNCHANGED notAsync

\* the work of chunk k ends and its future completes
WorkerFinish(k) ==
    /\ futures[k] = "running"
    /\ futures' = [futures EXCEPT ![k] = "done"]
    /\ completed' = Append(completed, k)
    /\ UNCHANGED <<adata, chunk_size, results, apc, returned>>
    /\ UNCHANGED notAsync

\* exec_async_fxn, async_requests.py:25-30: the next future of
\* asyncio.as_completed is awaited and its result appended
Collect ==
    /\ apc = "collecting"
    /\ Len(results) < Len(completed)
    /\ results' = Append(results,
                     fxn(chunkify(adata, chunk_size)[completed[Len(results) + 1]]))
    /\ UNCHANGED <<adata, chunk_size, futures, completed, apc, returned>>
    /\ UNCHANGED notAsync

\* as_completed is exhausted: exec_async_fxn returns results, the wrapper
\* the chained list (async_requests.py:31, 61)
AsyncReturn ==
    /\ apc = "collecting"
    /\ Len(results) = Len(futures)
    /\ returned' = chain(results)
    /\ apc' = "returned"
    /\ UNCHANGED <<adata, chunk_size, futures, completed, results>>
    /\ UNCHANGED notAsync

NextAsync ==
    \/ AsyncCall
    \/ \E k \in DOMAIN futures : WorkerStart(k)
    \/ \E k \in DOMAIN futures : WorkerFinish(k)
    \/ Collect
    \/ AsyncReturn

SpecAsync == InitAsync /\ [][NextAsync]_vars

(***************************************************************************)
(* SpecQuery: a record loaded from the server, its generic and its parent  *)
(* relationships                                                           *)
(***************************************************************************)
InitQuery ==
    /\ \E session \in {NoSession, "session"} :
          \/ \E m \in ParentModels : \E i \in QIds :
                /\ qrec = QRecord(m, i, Absent, "None", Absent, Absent, session)
                /\ qtable \in Tables
          \/ \E pid \in QIds : \E pc \in {"SampleType", "OperationType"} :
             \E stid, otid \in {Absent} \cup QIds :
                /\ qrec = QRecord("FieldType", 4, pid, pc, stid, otid, session)
                /\ qtable = {}
    /\ qcache = NoQCache
    /\ qcall = NoQCall
    /\ IdleRel
    /\ IdleFV
    /\ IdlePlan
    /\ IdleSave
    /\ IdleAsync
    /\ IdleHttp
    /\ IdleRid
    /\ IdleOp
    /\ IdleJson
    /\ IdleCookie

QDone(attr, out) ==
    /\ qcache' = out.cache
    /\ qcall' = [attr |-> attr, val |-> out.val, rows |-> out.rows,
                 err |-> out.err, n |-> out.n, keys |-> out.keys]
    /\ UNCHANGED <<qrec, qtable>>
    /\ UNCHANGED notQuery

\* operation.data_associations, item.data_associations
ReadDataAssociations ==
    /\ qrec.model \in ParentModels
    /\ QDone("data_associations", read_data_associations(qrec, qcache, qtable))

\* field_type.sample_type, field_type.operation_type
ReadParent(attr) ==
    /\ qrec.model = "FieldType"
    /\ QDone(attr, read_parent(qrec, qcache, attr))

NextQuery ==
    \/ ReadDataAssociations
    \/ \E attr \in {"sample_type", "operation_type"} : ReadParent(attr)

SpecQuery == InitQuery /\ [][NextQuery]_vars

(***************************************************************************)
(* SpecHttp: a transport is constructed (login) and requests are made      *)
(***************************************************************************)
Path == "samples.json"

InitHttp ==
    /\ http = "none"
    /\ requests_session = "unset"
    /\ request_history = <<>>
    /\ answered = {}
    /\ made = {}
    /\ nrequests = 0
    /\ hcall = NoHCall
    /\ IdleRel
    /\ IdleFV
    /\ IdlePlan
    /\ IdleSave
    /\ IdleAsync
    /\ IdleQuery
    /\ IdleRid
    /\ IdleOp
    /\ IdleJson
    /\ IdleCookie

\* AqHTTP(login, password, aquarium_url) (aqhttp.py:30-44): a constructor
\* that raises leaves no transport
NewAqHTTP(outcome) ==
    /\ http # "ready"
    /\ LET l == login(outcome)
       IN  /\ http' = IF l.err = "none" THEN "ready" ELSE "failed"
           /\ requests_session' = l.session
           /\ hcall' = [NoHCall EXCEPT !.op = "login", !.err = l.err,
                                       !.outcome = outcome]
    /\ request_history' = <<>>
    /\ answered' = {}
    /\ made' = {}
    /\ UNCHANGED nrequests
    /\ UNCHANGED notHttp

\* the state after a get, post or put
HDone(op, ok, json, outcome, out) ==
    /\ request_history' = out.history
    /\ answered' = IF out.sent > 0 /\ outcome.kind # "timeout"
                   THEN answered \cup {<<Path, op, json.dict>>}
                   ELSE answered
    /\ made' = IF out.sent > 0 THEN made \cup {<<Path, op, json.dict>>} ELSE made
    /\ nrequests' = nrequests + out.sent
    /\ hcall' = [op |-> op, ok |-> ok, json |-> json, result |-> out.result,
                 err |-> out.err, sent |-> out.sent,
                 outcome |-> IF out.sent > 0 THEN outcome.kind ELSE "none"]
    /\ UNCHANGED <<http, requests_session>>
    /\ UNCHANGED notHttp

\* aqhttp.get(path, get_from_history_ok=ok)
Get(ok, outcome) ==
    /\ http = "ready"
    /\ nrequests < MaxRequests
    /\ HDone("get", ok, NoJson, outcome, get(request_history, Path, ok, outcome))

\* aqhttp.post(path, json_data, get_from_history_ok=ok)
Post(json_data, ok, outcome) ==
    /\ http = "ready"
    /\ nrequests < MaxRequests
    /\ HDone("post", ok, json_data, outcome,
             post(request_history, Path, json_data, ok, outcome))

\* aqhttp.put(path, json_data, get_from_history_ok=ok)
Put(json_data, ok, outcome) ==
    /\ http = "ready"
    /\ nrequests < MaxRequests
    /\ HDone("put", ok, json_data, outcome,
             put(request_history, Path, json_data, ok, outcome))

\* aqhttp.clear_history() (aqhttp.py:95-97)
ClearHistory ==
    /\ http = "ready"
    /\ request_history' = <<>>
    /\ answered' = {}
    /\ made' = {}
    /\ hcall' = [NoHCall EXCEPT !.op = "clear_history"]
    /\ UNCHANGED <<http, requests_session, nrequests>>
    /\ UNCHANGED notHttp

NextHttp ==
    \/ \E outcome \in LoginOutcomes : NewAqHTTP(outcome)
    \/ \E ok \in BOOLEAN : \E outcome \in Outcomes : Get(ok, outcome)
    \/ \E j \in JsonData : \E ok \in BOOLEAN : \E outcome \in Outcomes :
          Post(j, ok, outcome)
    \/ \E j \in JsonData : \E ok \in BOOLEAN : \E outcome \in Outcomes :
          Put(j, ok, outcome)
    \/ ClearHistory

SpecHttp == InitHttp /\ [][NextHttp]_vars

(***************************************************************************)
(* SpecRid: record instances are created in a process                      *)
(***************************************************************************)
InitRid ==
    /\ instances = <<>>
    /\ rid_counter = 0
    /\ rcall = NoRidCall
    /\ IdleRel
    /\ IdleFV
    /\ IdlePlan
    /\ IdleSave
    /\ IdleAsync
    /\ IdleQuery
    /\ IdleHttp
    /\ IdleOp
    /\ IdleJson
    /\ IdleCookie

\* m = MyModel(), m2 = MyOtherModel()
Create(model) ==
    /\ Len(instances) < MaxInstances
    /\ instances' = Append(instances, new_record(instances, rid_counter, model))
    /\ rid_counter' = rid_counter + 1
    /\ rcall' = [op |-> "new", i |-> Len(instances) + 1, session |-> NoSession]
    /\ UNCHANGED notRid

\* m.connect_to_session(session)
Connect(i, session) ==
    /\ instances' = [instances EXCEPT ![i] = connect_to_session(instances[i], session)]
    /\ rcall' = [op |-> "connect_to_session", i |-> i, session |-> session]
    /\ UNCHANGED rid_counter
    /\ UNCHANGED notRid

NextRid ==
    \/ \E model \in Classes : Create(model)
    \/ \E i \in DOMAIN instances : \E session \in Sessions : Connect(i, session)

SpecRid == InitRid /\ [][NextRid]_vars

(***************************************************************************)
(* SpecOp: an Operation of an OperationType and its field values           *)
(***************************************************************************)
InitOp ==
    /\ otype \in FieldTypeLists
    /\ oper = <<>>
    /\ ocall = NoOpCall
    /\ IdleRel
    /\ IdleFV
    /\ IdlePlan
    /\ IdleSave
    /\ IdleAsync
    /\ IdleQuery
    /\ IdleHttp
    /\ IdleRid
    /\ IdleJson
    /\ IdleCookie

OpDone(op, name, role, out) ==
    /\ oper' = <<out.o>>
    /\ ocall' = [op |-> op, name |-> name, role |-> role,
                 err |-> out.err, ret |-> out.ret]
    /\ UNCHANGED otype
    /\ UNCHANGED notOp

\* op = operation_type.instance(); an instance() that raises returns no
\* operation
Instance(session) ==
    /\ oper = <<>>
    /\ LET out == instance(otype, session)
       IN  IF out.err = "none"
           THEN OpDone("instance", "none", "none", out)
           ELSE /\ ocall' = [NoOpCall EXCEPT !.op = "instance", !.err = out.err]
                /\ UNCHANGED <<otype, oper>>
                /\ UNCHANGED notOp

\* an Operation of the OperationType that has no field values yet:
\* op = Operation(...), connected to the session, op.operation_type set
LoadOperation(session) ==
    /\ oper = <<>>
    /\ OpDone("Operation", "none", "none",
              OpOut(connect_to_session(NewOperation(NoSession), session),
                    "none", RetNone))

\* op.init_field_values()
InitFieldValues ==
    /\ oper # <<>>
    /\ Len(oper[1].field_values.fvs) + Len(otype) <= MaxFvs
    /\ OpDone("init_field_values", "none", "none",
              init_field_values(oper[1], otype, 1))

\* op.set_field_value(name, role, ...), op.set_input and op.set_output
SetFieldValue(name, role, a) ==
    /\ oper # <<>>
    /\ Len(oper[1].field_values.fvs) < MaxFvs
    /\ OpDone("set_field_value", name, role,
              set_field_value(oper[1], otype, name, role, a))

\* op.add_to_field_value_array(name, role, ...), op.add_to_input_array and
\* op.add_to_output_array
AddToFieldValueArray(name, role, a) ==
    /\ oper # <<>>
    /\ Len(oper[1].field_values.fvs) < MaxFvs
    /\ OpDone("add_to_field_value_array", name, role,
              add_to_field_value_array(oper[1], otype, name, role, a))

\* op.set_field_value_array(name, role, values), op.set_input_array and
\* op.set_output_array
SetFieldValueArray(name, role, values) ==
    /\ oper # <<>>
    /\ OpDone("set_field_value_array", name, role,
              set_field_value_array(oper[1], otype, name, role, values))

\* op.field_value(name, role), op.input(name) and op.output(name)
GetFieldValue(name, role) ==
    /\ oper # <<>>
    /\ OpDone("field_value", name, role, field_value(oper[1], name, role))

\* op.field_value_array(name, role), op.input_array and op.output_array
GetFieldValueArray(name, role) ==
    /\ oper # <<>>
    /\ OpDone("field_value_array", name, role,
              field_value_array(oper[1], otype, name, role))

NextOp ==
    \/ \E session \in {NoSession, "session"} : Instance(session)
    \/ \E session \in {NoSession, "session"} : LoadOperation(session)
    \/ InitFieldValues
    \/ \E key \in Keys : \E a \in OpArgs :
          SetFieldValue(key[1], key[2], a)
    \/ \E key \in Keys : \E a \in OpArgs :
          AddToFieldValueArray(key[1], key[2], a)
    \/ \E key \in Keys : \E values \in OpValues :
          SetFieldValueArray(key[1], key[2], values)
    \/ \E key \in Keys : GetFieldValue(key[1], key[2])
    \/ \E key \in Keys : GetFieldValueArray(key[1], key[2])

SpecOp == InitOp /\ [][NextOp]_vars

(***************************************************************************)
(* SpecJson: a record is loaded from a document, dumped, and loaded again  *)
(***************************************************************************)
InitJson ==
    /\ jdoc = [attr |-> "layout", value |-> NoneValue, nulls |-> "field"]
    /\ jrec = <<>>
    /\ jdumped = <<>>
    /\ jrec2 = <<>>
    /\ jcall = NoJsonCall
    /\ IdleRel
    /\ IdleFV
    /\ IdlePlan
    /\ IdleSave
    /\ IdleAsync
    /\ IdleQuery
    /\ IdleHttp
    /\ IdleRid
    /\ IdleOp
    /\ IdleCookie

\* R = Model.load(D); a load that raises gives no record
Load(attr, nulls, value) ==
    LET r == load_attribute(attr, nulls, value)
    IN  /\ jdoc' = [attr |-> attr, value |-> value, nulls |-> nulls]
        /\ jrec' = IF r.err = "none" THEN <<r.val>> ELSE <<>>
        /\ jdumped' = <<>>
        /\ jrec2' = <<>>
        /\ jcall' = [op |-> "load", err |-> r.err]
        /\ UNCHANGED notJson

\* dumped = R.dump()
Dump ==
    /\ jrec # <<>>
    /\ jdumped = <<>>
    /\ LET r == JSON_serialize(jrec[1])
       IN  /\ jdumped' = IF r.err = "none" THEN <<r.val>> ELSE <<>>
           /\ jcall' = [op |-> "dump", err |-> r.err]
    /\ UNCHANGED <<jdoc, jrec, jrec2>>
    /\ UNCHANGED notJson

\* R2 = Model.load(dumped)
Reload ==
    /\ jdumped # <<>>
    /\ jcall.op = "dump"
    /\ LET r == load_attribute(jdoc.attr, jdoc.nulls, jdumped[1])
       IN  /\ jrec2' = IF r.err = "none" THEN <<r.val>> ELSE <<>>
           /\ jcall' = [op |-> "reload", err |-> r.err]
    /\ UNCHANGED <<jdoc, jrec, jdumped>>
    /\ UNCHANGED notJson

NextJson ==
    \/ \E attr \in JsonAttrs : \E nulls \in NullHandling :
          \E value \in DocValues : Load(attr, nulls, value)
    \/ Dump
    \/ Reload

SpecJson == InitJson /\ [][NextJson]_vars

(***************************************************************************)
(* SpecCookie: the cookie header is made from a set-cookie header          *)
(***************************************************************************)
InitCookie ==
    /\ set_cookie \in UNION {[1..n -> [name : CookieNames, value : CookieValues]] :
                                n \in 1..MaxFields}
    /\ cookie = <<>>
    /\ ccall = NoCookieCall
    /\ IdleRel
    /\ IdleFV
    /\ IdlePlan
    /\ IdleSave
    /\ IdleAsync
    /\ IdleQuery
    /\ IdleHttp
    /\ IdleRid
    /\ IdleOp
    /\ IdleJson

\* AqHTTP.fix_remember_token(res.headers["set-cookie"])
FixRememberToken ==
    /\ ccall.op = "none"
    /\ LET r == fix_remember_token(HeaderText(set_cookie))
       IN  /\ cookie' = IF r.err = "none" THEN r.val ELSE <<>>
           /\ ccall' = [op |-> "fix_remember_token", err |-> r.err]
    /\ UNCHANGED set_cookie
    /\ UNCHANGED notCookie

NextCookie == FixRememberToken

SpecCookie == InitCookie /\ [][NextCookie]_vars

(***************************************************************************)
(* Claims about the relationship resolver                                  *)
(***************************************************************************)
IsRead(c) == c.op \in {"getattr", "get_allowable_field_types"}

\* C1 (as stated): for every relationship attribute at most one remote
\* lookup is ever issued, and every read after the first lookup returns the
\* value that lookup gave
C1_AtMostOneLookup ==
    \A a \in Attrs(rec.model) :
        /\ lookups[a] <= 1
        /\ (IsRead(last) /\ last.attr = a /\ last.err = "none" /\ lookups[a] >= 1)
              => last.val = firstVal[a]

\* a relationship attribute holds a value that later reads keep: it is not
\* None, and it is not an empty allowable_field_types (which
\* get_allowable_field_types clears)
Settled(a) ==
    /\ cache[a] # None
    /\ ~(a = "allowable_field_types" /\ cache[a] = Many(<<>>))

\* C1 (amended): once a relationship attribute holds a non-null value (for
\* allowable_field_types: a non-empty one), every later read issues no
\* remote lookup and returns that value, whatever the server holds by then
C1_MemoizedOnceSet ==
    [][\A a \in Attrs(rec.model) :
          Settled(a) =>
             /\ cache'[a] = cache[a]
             /\ lookups'[a] = lookups[a]
             /\ (calls' = calls + 1 /\ last'.attr = a)
                   => (last'.val = cache[a] /\ last'.err = "none")]_vars

\* C1 witness: a read answered from the instance, with no lookup, after the
\* server's answer has moved away from the value held
C1_Witness ==
    /\ IsRead(last)
    /\ last.looked = 0
    /\ last.val # None
    /\ lookups[last.attr] = 1
    /\ Fields(rec.model)[last.attr].rel # "HasManyThrough"
    /\ srv[last.attr] # last.val
    /\ Settled(last.attr)

\* C2 (as stated): reading a relationship attribute of a record that has no
\* session raises NoSessionError, whatever the callback and the parent_class
C2_NoSessionRaises ==
    (IsRead(last) /\ last.session = NoSession) => last.err = "NoSessionError"

(***************************************************************************)
(* Claims about FieldValue and AllowableFieldType                          *)
(***************************************************************************)
\* the sample and the object type a set_value call with arguments a leaves
\* on FieldValue f: the one given, else the item's, else the one held
EffSample(f, a) ==
    IF a.sample # 0 THEN a.sample
    ELSE IF a.item # 0 /\ sample_of(a.item) # 0 THEN sample_of(a.item)
    ELSE f.sample
EffObjectType(f, a) ==
    IF a.container # 0 THEN a.container
    ELSE IF a.item # 0 THEN object_type_id(a.item)
    ELSE f.object_type

\* the item, when given with a container, is in that container
Accepted(a) == ~(a.item # 0 /\ a.container # 0 /\ object_type_id(a.item) # a.container)

\* the positions of the allowable field types that match a sample and an
\* object type (0: none to match)
Matching(s, o) ==
    {i \in DOMAIN ftype.afts :
        /\ s # 0 => ftype.afts[i].sample_type_id = sample_type_id(s)
        /\ o # 0 => ftype.afts[i].object_type_id = o}

\* this step is a set_value call on the FieldValue, with a sample, an item
\* or a container, and n is true of the set of matching allowable field types
SetValueStep(P(_)) ==
    /\ fv # <<>>
    /\ fvcall'.op = "set_value"
    /\ AnyGiven(fvcall'.args)
    /\ P(Matching(EffSample(fv[1], fvcall'.args), EffObjectType(fv[1], fvcall'.args)))

\* C3 (as stated): a FieldValue whose sample or item is set has an
\* allowable_field_type that matches the sample's sample type and the
\* object type
C3_SampleHasMatchingAft ==
    (fv # <<>> /\ (fv[1].sample # 0 \/ fv[1].item # 0)) =>
        /\ fv[1].allowable_field_type # NoAft
        /\ fv[1].sample # 0 =>
              fv[1].allowable_field_type.sample_type_id = sample_type_id(fv[1].sample)
        /\ fv[1].object_type # 0 =>
              fv[1].allowable_field_type.object_type_id = fv[1].object_type

\* C4: a set_value call with a sample, item or container for which exactly
\* one allowable field type matches does not raise and leaves that one as
\* allowable_field_type, its id as allowable_field_type_id
C4_OneMatchAssigned ==
    [][(SetValueStep(LAMBDA M : Cardinality(M) = 1) /\ Accepted(fvcall'.args)) =>
          /\ fvcall'.err = "none"
          /\ \A i \in Matching(EffSample(fv[1], fvcall'.args),
                               EffObjectType(fv[1], fvcall'.args)) :
                /\ fv'[1].allowable_field_type = ftype.afts[i]
                /\ fv'[1].allowable_field_type_id = ftype.afts[i].id]_vars

C4_Witness ==
    /\ fv # <<>>
    /\ fvcall.op = "set_value" /\ fvcall.err = "none" /\ ~fvcall.warn
    /\ AnyGiven(fvcall.args)
    /\ Len(ftype.afts) >= 2
    /\ fv[1].allowable_field_type = ftype.afts[2]
    /\ Cardinality(Matching(fv[1].sample, fv[1].object_type)) = 1

\* C5: a set_value call for which more than one allowable field type
\* matches warns, does not raise, and leaves allowable_field_type and
\* allowable_field_type_id as they were before the call
C5_SeveralMatchesNoAssignment ==
    [][(SetValueStep(LAMBDA M : Cardinality(M) > 1) /\ Accepted(fvcall'.args)) =>
          /\ fvcall'.err = "none"
          /\ fvcall'.warn
          /\ fv'[1].allowable_field_type = fv[1].allowable_field_type
          /\ fv'[1].allowable_field_type_id = fv[1].allowable_field_type_id]_vars

C5_Witness ==
    /\ fv # <<>>
    /\ fvcall.op = "set_value" /\ fvcall.warn
    /\ fv[1].sample # 0
    /\ Cardinality(Matching(fv[1].sample, fv[1].object_type)) > 1
    /\ fv[1].allowable_field_type = NoAft

\* C6: a set_value call with a sample, item or container for which no
\* allowable field type matches raises AquariumModelError
C6_NoMatchRaises ==
    [][SetValueStep(LAMBDA M : M = {}) => fvcall'.err = "AquariumModelError"]_vars

C6_Witness ==
    /\ fv # <<>>
    /\ fvcall.op = "set_value" /\ fvcall.err = "AquariumModelError"
    /\ Accepted(fvcall.args)
    /\ Len(ftype.afts) > 0
    /\ Matching(fv[1].sample, fv[1].object_type) = {}

\* C21 (as stated): ft.initialize_field_value(parent=sample) yields a
\* FieldValue with the parent's id and model name, the name, role and id of
\* the FieldType, and the FieldType's first AllowableFieldType
C21_InitializedFromParent ==
    fvcall.op = "initialize_field_value(parent)" =>
        /\ fvcall.err = "none"
        /\ fv # <<>>
        /\ fv[1].parent_id = ParentSample.id
        /\ fv[1].parent_class = ParentSample.model
        /\ fv[1].name = ftype.name /\ fv[1].role = ftype.role
        /\ fv[1].field_type = ftype.id /\ fv[1].field_type_id = ftype.id
        /\ Len(ftype.afts) > 0 =>
              /\ fv[1].allowable_field_type = ftype.afts[1]
              /\ fv[1].allowable_field_type_id = ftype.afts[1].id

\* C29 (as stated): a set_value that raises AquariumModelError leaves the
\* value, sample, item, object type and allowable field type of the
\* FieldValue as they were
C29_FailedSetValueNoEffect ==
    [][(fvcall'.op = "set_value" /\ fvcall'.err = "AquariumModelError") =>
          fv' = fv]_vars

(***************************************************************************)
(* Claims about the Plan / Wire graph and the save of a plan               *)
(***************************************************************************)
\* the wires of the plan from src to dest
WiresBetween(src, dest) ==
    {i \in DOMAIN plan.wires :
        plan.wires[i].source = src /\ plan.wires[i].destination = dest}

\* the wire is in the list a read of the attribute gives now
Contains(r, w) == r.err = "none" /\ w \in Range(r.val.ids)

\* C7 (as stated): after Plan.wire(src, dest) has connected an output src of
\* one operation of the plan to an input dest of another, not connected
\* before, exactly one Wire from src to dest exists, and that Wire is in
\* src.outgoing_wires and in dest.incoming_wires
C7_WireLinked ==
    (/\ pcall.op = "wire" /\ pcall.fresh
     /\ fv_operation(pcall.src) # fv_operation(pcall.dest)
     /\ {fv_operation(pcall.src), fv_operation(pcall.dest)} \subseteq
            Range(plan.operations)) =>
        /\ Cardinality(WiresBetween(pcall.src, pcall.dest)) = 1
        /\ \A i \in WiresBetween(pcall.src, pcall.dest) :
              /\ Contains(outgoing_wires(fvw, psession, srvw, pcall.src),
                          plan.wires[i])
              /\ Contains(incoming_wires(fvw, psession, srvw, pcall.dest),
                          plan.wires[i])

\* C28 (as stated): a save of a PlanRecord that has an id issues no HTTP
\* request, leaves the id, the operations and the wires as they were, and
\* returns the plan
C28_SavedPlanNotSavedAgain ==
    [][(scall'.op = "save" /\ prec.id # 0) =>
          /\ scall'.posts = 0
          /\ prec'.id = prec.id
          /\ prec'.operations = prec.operations
          /\ prec'.wires = prec.wires
          /\ scall'.err = "none"]_vars

\* the wires, held by the server or made by Plan.wire, that touch a
\* FieldValue of an operation of the plan
PlanWires ==
    {w \in Range(srvw) \cup Range(plan.wires) :
        \/ fv_operation(w.source) \in Range(plan.operations)
        \/ fv_operation(w.destination) \in Range(plan.operations)}

\* how often x is in the list s
Count(s, x) == Cardinality({i \in DOMAIN s : s[i] = x})

\* C27 (as stated): all_wires holds every wire that touches a FieldValue of
\* an operation of the plan exactly once, and no other wire
C27_AllWiresOnce ==
    (pcall.op = "all_wires" /\ pcall.err = "none") =>
        /\ \A w \in PlanWires : Count(pcall.val.ids, w) = 1
        /\ Range(pcall.val.ids) \subseteq PlanWires

\* the ids of a list of records
IdsOf(rs) == [i \in DOMAIN rs |-> rs[i].id]

C9_SaveAdoptsServerCopy ==
    [][(scall'.op = "save" /\ prec.id = 0 /\ ~scall'.resp.errors) =>
          /\ scall'.err = "none"
          /\ prec'.id = scall'.resp.id
          /\ IdsOf(prec'.operations) = scall'.resp.operations
          /\ IdsOf(prec'.wires) = IdsOf(scall'.resp.wires)
          /\ Range(prec'.operations) \cap Range(prec.operations) = {}
          /\ Range(prec'.wires) \cap Range(prec.wires) = {}]_vars

C9_Witness ==
    /\ scall.op = "save" /\ scall.err = "none" /\ scall.posts = 1
    /\ prec.id = scall.resp.id
    /\ prec.id # 0
    /\ nrid > FirstRid + 1 + Len(prec.operations) + Len(prec.wires)
    /\ Len(prec.operations) = 2
    /\ Len(prec.wires) = 0

(***************************************************************************)
(* Claims about the parallel-fetch helper                                  *)
(***************************************************************************)
\* C10 (as stated): the wrapper returns only after every worker has
\* finished, and the i-th entry of the list it returns is the function
\* applied to the i-th item of the data
C10_ResultsInInputOrder ==
    apc = "returned" =>
        /\ \A k \in DOMAIN futures : futures[k] = "done"
        /\ returned = [i \in DOMAIN adata |-> Fxn(adata[i])]

(***************************************************************************)
(* Claims about the parameters of relationships                            *)
(***************************************************************************)
\* C11 (as stated): a HasManyGeneric relationship of a record of type T with
\* id i is queried with parent_id and parent_class, and every record it
\* returns has parent_id i and parent_class T
C11_GenericFiltersByClass ==
    (qcall.attr = "data_associations" /\ qcall.err = "none") =>
        /\ qcall.n = 1 => qcall.keys = {"parent_id", "parent_class"}
        /\ \A row \in qcall.rows :
              row.parent_id = qrec.id /\ row.parent_class = qrec.model

\* C20 (as stated): for a FieldType with parent_id p bound to a session, the
\* attribute whose model is parent_class resolves to the record with id p,
\* the other one is None and no lookup is issued for it
C20_ParentByClass ==
    (/\ qrec.model = "FieldType"
     /\ qrec.session # NoSession
     /\ qcall.attr \in {"sample_type", "operation_type"}) =>
        IF ParentTarget(qcall.attr) = qrec.parent_class
        THEN qcall.err = "none" /\ qcall.val = One(qrec.parent_id)
        ELSE qcall.err = "none" /\ qcall.val = None /\ qcall.n = 0

(***************************************************************************)
(* Claims about the transport                                              *)
(***************************************************************************)
\* this step is a get, post or put that the check of the body let through
RequestStep ==
    /\ hcall'.op \in Methods
    /\ \/ hcall'.json = NoJson
       \/ hcall'.json.given = "dict" /\ "null" \notin Range(hcall'.json.dict)

\* the (url, method, body) of the call of this step
StepKey == <<Path, hcall'.op, hcall'.json.dict>>

\* C12 (as stated): a request without get_from_history_ok issues an HTTP
\* request whatever the history holds; one with get_from_history_ok issues
\* none and replays the stored response if and only if a request of the same
\* (url, method, body) was made since the construction or the last
\* clear_history, and issues exactly one otherwise
C12_HistoryReuseOfMade ==
    [][hcall'.op \in Methods =>
          /\ ~hcall'.ok => nrequests' = nrequests + 1
          /\ hcall'.ok =>
                /\ (nrequests' = nrequests) <=> (StepKey \in made)
                /\ nrequests' \in {nrequests, nrequests + 1}]_vars

\* C12 (amended): a request whose body is None or has a null value at the
\* top level raises and issues no HTTP request; for any other request the
\* statement holds with "a request of the same (url, method, body) was
\* answered", by a response of any content: a request that timed out stores
\* nothing
C12_HistoryReuse ==
    [][hcall'.op \in Methods =>
          /\ ~RequestStep =>
                /\ nrequests' = nrequests
                /\ hcall'.err \in {"AttributeError", "TridentJSONDataIncomplete"}
          /\ RequestStep =>
                /\ ~hcall'.ok => nrequests' = nrequests + 1
                /\ hcall'.ok =>
                      /\ (nrequests' = nrequests) <=> (StepKey \in answered)
                      /\ nrequests' \in {nrequests, nrequests + 1}
                      /\ nrequests' = nrequests =>
                            hcall'.result =
                                request_history[serialize_request(Path, hcall'.op,
                                                                  hcall'.json.dict)]]_vars

\* C12 witness: a put replayed from the history while the post of the same
\* url and body, answered too, is kept apart
C12_Witness ==
    /\ hcall.op = "put" /\ hcall.ok /\ hcall.sent = 0
    /\ hcall.result = Response("json", FALSE, 2)
    /\ <<Path, "put", hcall.json.dict>> \in answered
    /\ <<Path, "post", hcall.json.dict>> \in answered
    /\ nrequests >= 2

\* C13: a get, post or put whose response, from the server or replayed from
\* the history, is not JSON or has an "errors" key raises the request error
C13_BadResponseRaises ==
    (/\ hcall.op \in Methods
     /\ (hcall.result.kind = "notjson" \/ hcall.result.errors)) =>
        hcall.err = "RequestError"

C13_Witness ==
    /\ hcall.op \in Methods
    /\ hcall.ok /\ hcall.sent = 0
    /\ hcall.result.errors
    /\ hcall.err = "RequestError"

\* the JSON body of the call has a field whose value is null, at the top
\* level or inside a nested value
HasNullField(json) ==
    json.given = "dict" /\ Range(json.dict) \cap {"null", "{null}"} # {}

\* C14 (as stated): a post or put whose JSON body has a field with value
\* null raises TridentJSONDataIncomplete, issues no HTTP request and leaves
\* the request history as it was
C14_NullBodyRejected ==
    [][(hcall'.op \in {"post", "put"} /\ HasNullField(hcall'.json)) =>
          /\ hcall'.err = "TridentJSONDataIncomplete"
          /\ nrequests' = nrequests
          /\ request_history' = request_history]_vars

\* C15 (as stated): post(path) and put(path) without json_data issue the
\* HTTP request and return the parsed response, as get(path) does
C15_NoBodyAccepted ==
    (hcall.op \in {"post", "put"} /\ hcall.json = PyNone /\ ~hcall.ok) =>
        /\ hcall.sent = 1
        /\ (hcall.result.kind = "json" /\ ~hcall.result.errors) => hcall.err = "none"

\* C16: after a login that met a malformed URL, a connection timeout or a
\* response without set-cookie, the matching error is raised, there is no
\* transport and the requests session is unset
C16_FailedLoginNoSession ==
    /\ (hcall.op = "login" /\ hcall.outcome = "MissingSchema") =>
          hcall.err = "TridentLoginError"
    /\ (hcall.op = "login" /\ hcall.outcome = "ConnectTimeout") =>
          hcall.err = "TridentTimeoutError"
    /\ (hcall.op = "login" /\ hcall.outcome = "no set-cookie") =>
          hcall.err = "TridentLoginError"
    /\ (hcall.op = "login" /\ hcall.err # "none") =>
          requests_session = "unset" /\ http = "failed"
    /\ http # "ready" => requests_session = "unset"

C16_Witness ==
    /\ hcall.op = "login"
    /\ hcall.outcome = "no set-cookie"
    /\ hcall.err = "TridentLoginError"
    /\ requests_session = "unset"

\* C17: a get, post or put issues at most one HTTP request, and when that
\* request times out or is answered with a body that is not JSON or has an
\* "errors" key, the call itself raises
C17_NoRetry ==
    [][hcall'.op \in Methods =>
          /\ nrequests' \in {nrequests, nrequests + 1}
          /\ hcall'.sent = nrequests' - nrequests
          /\ (/\ nrequests' = nrequests + 1
              /\ hcall'.outcome \in {"timeout", "notjson"}) => hcall'.err # "none"
          /\ (nrequests' = nrequests + 1 /\ hcall'.result.errors) =>
                hcall'.err # "none"]_vars

C17_Witness ==
    /\ hcall.op = "get"
    /\ hcall.outcome = "timeout"
    /\ hcall.err = "requests.Timeout"
    /\ hcall.sent = 1
    /\ nrequests = 2

(***************************************************************************)
(* Claims about sessions and record ids                                    *)
(***************************************************************************)
\* C18: a new record has no session; connect_to_session with a session binds
\* a record that has none to it; a record that has a session keeps it
\* whatever it is connected to later
C18_SessionBoundOnce ==
    [][/\ rcall'.op = "new" => instances'[rcall'.i].session = NoSession
       /\ \A i \in DOMAIN instances :
             /\ instances[i].session # NoSession =>
                   instances'[i].session = instances[i].session
             /\ (/\ rcall'.op = "connect_to_session" /\ rcall'.i = i
                 /\ instances[i].session = NoSession)
                   => instances'[i].session = rcall'.session]_vars

C18_Witness ==
    /\ rcall.op = "connect_to_session"
    /\ rcall.session = "session2"
    /\ instances[rcall.i].session = "session"

\* C19: any two record instances created in the process, of the same model
\* class or not, have different rids
C19_RidsDistinct ==
    \A i, j \in DOMAIN instances :
        i # j => instances[i].rid # instances[j].rid

C19_Witness ==
    /\ Len(instances) >= 3
    /\ instances[1].model = "MyModel"
    /\ instances[2].model = "MyOtherModel"
    /\ instances[3].model = "MyModel"

(***************************************************************************)
(* Claims about Operation and OperationType                                *)
(***************************************************************************)
\* the FieldValues the operation holds, before and after the step
OperFvs == oper[1].field_values.fvs
OperFvsAfter == oper'[1].field_values.fvs

\* the step is a call of one of the methods on an operation bound to a
\* session
MethodStep(ops) ==
    /\ oper # <<>>
    /\ oper[1].session # NoSession
    /\ ocall'.op \in ops

\* the FieldType the call of this step names, 0 if none is declared
StepFieldType == field_type(otype, ocall'.name, ocall'.role)

\* C23 (as stated): set_field_value for an array FieldType raises
\* AquariumModelError and adds or changes no FieldValue, field_value for an
\* array FieldType returns no single FieldValue, and field_value_array for
\* a FieldType that is not an array raises AquariumModelError
C23_ArrayOnlyAsCollection ==
    [][(MethodStep({"set_field_value", "field_value", "field_value_array"})
        /\ StepFieldType # 0) =>
          /\ (ocall'.op = "set_field_value" /\ otype[StepFieldType].array) =>
                /\ ocall'.err = "AquariumModelError"
                /\ OperFvsAfter = OperFvs
          /\ (ocall'.op = "field_value" /\ otype[StepFieldType].array) =>
                ocall'.ret.k # "one"
          /\ (ocall'.op = "field_value_array" /\ ~otype[StepFieldType].array) =>
                ocall'.err = "AquariumModelError"]_vars

\* C24: the Operation that OperationType.instance() returns holds, for every
\* FieldType of the OperationType, exactly one FieldValue of that field
\* type, name and role, holds no other FieldValue, and each FieldValue has no
\* sample, no item and no value
C24_InstanceInitializesFieldValues ==
    (ocall.op = "instance" /\ ocall.err = "none") =>
        /\ oper # <<>>
        /\ \A i \in DOMAIN otype :
              Cardinality({j \in DOMAIN OperFvs :
                              /\ OperFvs[j].field_type = otype[i].id
                              /\ OperFvs[j].name = otype[i].name
                              /\ OperFvs[j].role = otype[i].role}) = 1
        /\ Len(OperFvs) = Len(otype)
        /\ \A j \in DOMAIN OperFvs :
              /\ OperFvs[j].sample = 0 /\ OperFvs[j].child_sample_id = 0
              /\ OperFvs[j].item = 0 /\ OperFvs[j].child_item_id = 0
              /\ OperFvs[j].value = 0

\* C24 witness: an instance of an OperationType with a single and an array
\* FieldType
C24_Witness ==
    /\ ocall.op = "instance" /\ ocall.err = "none"
    /\ Len(otype) = 2
    /\ \E i \in DOMAIN otype : otype[i].array
    /\ Len(OperFvs) = 2

\* C25 (as stated): set_field_value, set_field_value_array and
\* add_to_field_value_array, called with a name and role for which the
\* OperationType declares no FieldType, raise AquariumModelError and leave
\* the operation's field values as they were
C25_MissingFieldTypeRaises ==
    [][(MethodStep({"set_field_value", "set_field_value_array",
                    "add_to_field_value_array"})
        /\ StepFieldType = 0) =>
          /\ ocall'.err = "AquariumModelError"
          /\ OperFvsAfter = OperFvs]_vars

\* C30 (as stated): every FieldValue in the operation's field_values has
\* parent_class "Operation" and the operation as its operation attribute
C30_FieldValuesBoundToOperation ==
    oper # <<>> =>
        \A j \in DOMAIN OperFvs :
            /\ OperFvs[j].parent_class = "Operation"
            /\ OperFvs[j].operation = 1

(***************************************************************************)
(* Claims about the marshaller                                             *)
(***************************************************************************)
\* C22 (as stated): the record loaded from the dump of a record R that was
\* loaded from a document has, for an attribute declared with the JSON
\* field, the value R has, whatever the value, null included
C22_RoundTrip ==
    jcall.op = "reload" =>
        /\ jcall.err = "none"
        /\ jrec2 = jrec

(***************************************************************************)
(* Claims about the remember token                                         *)
(***************************************************************************)
\* the positions of the remember_token fields of the header
TokenFields == {i \in DOMAIN set_cookie : set_cookie[i].name = "remember_token"}

\* C26 (as stated): for a set-cookie header with one remember_token field,
\* of value v, at any position, fix_remember_token returns
\* "remember_token=" + v + "; " + the header
C26_TokenFirst ==
    (ccall.op = "fix_remember_token" /\ Cardinality(TokenFields) = 1) =>
        /\ ccall.err = "none"
        /\ \A i \in TokenFields :
              cookie = <<"remember_token", "=">> \o set_cookie[i].value \o
                       <<";", " ">> \o HeaderText(set_cookie)

====
